---------------------------- MODULE Spec2Model ----------------------------
(***************************************************************************)
(* A model of the medical-codex pipeline: seven batch scripts (HCPCS,      *)
(* ICD-10-CM, ICD-10-WHO, LOINC, NPI, RxNorm/NPI variant, SNOMED) that     *)
(* each load one input file, clean it to (code, description, last_updated) *)
(* records and write a CSV.                                                *)
(*                                                                         *)
(* A Python str is modelled as a sequence of one-character strings, so     *)
(* that strip(), upper(), re.fullmatch() and the line regexes are computed *)
(* character by character as the code computes them.  A pandas missing     *)
(* value (NaN) is the one-element sequence NaN.                            *)
(***************************************************************************)
EXTENDS Integers, Sequences, FiniteSets, TLC

VARIABLES
    script,     \* which script this run executes
    input,      \* the input file of the run (a record; its shape depends on the script)
    clock,      \* the wall clock, in seconds after ClockBase
    pc,         \* position of the run: "start", "loaded", "cleaned", "saved", "failed", "npi"
    raw,        \* the dataset the load step returned
    out,        \* the cleaned record set (sequence of records code/description/last_updated)
    files,      \* the writes this run has made: a sequence of [path, cols, rows]
    err,        \* the exception that ended the run, or NoErr
    stamp,      \* the values the timestamp helper returned during this run
    npi_arg,    \* is_valid_npi: the candidate handed to the function
    npi_ret     \* is_valid_npi: what the two copies returned, or NotCalled

vars == <<script, input, clock, pc, raw, out, files, err, stamp, npi_arg, npi_ret>>

(***************************************************************************)
(* Bounds of the model.                                                    *)
(***************************************************************************)
MaxRows == 3
MaxNpiLen == 11
MaxTicks == 1

(***************************************************************************)
(* Characters and Python str methods.                                      *)
(***************************************************************************)
DigitSeq == <<"0","1","2","3","4","5","6","7","8","9">>
UpperSeq == <<"A","B","C","D","E","F","G","H","I","J","K","L","M",
              "N","O","P","Q","R","S","T","U","V","W","X","Y","Z">>
LowerSeq == <<"a","b","c","d","e","f","g","h","i","j","k","l","m",
              "n","o","p","q","r","s","t","u","v","w","x","y","z">>
HexSeq == <<"0","1","2","3","4","5","6","7","8","9","A","B","C","D","E","F">>

Range(f) == {f[i] : i \in DOMAIN f}

\* The characters U+0000 to U+00FF by code point (Latin1[n + 1] is chr(n)).  A
\* character that cannot be written in a string of this module, which is the
\* null character, the grave accent and every character beyond U+00FF, is
\* written as its code point: "U+" and four to six hexadecimal digits, as in "U+0663".
Latin1 == <<
    "U+0000", "", "", "", "", "", "", "", "", "\t", "\n", "", "\f", "\r", "", "", "",
    "", "", "", "", "", "", "", "", "", "", "", "", "", "", "", " ", "!", "\"", "#",
    "$", "%", "&", "'", "(", ")", "*", "+", ",", "-", ".", "/", "0", "1", "2", "3", "4", "5", "6",
    "7", "8", "9", ":", ";", "<", "=", ">", "?", "@", "A", "B", "C", "D", "E", "F", "G", "H", "I",
    "J", "K", "L", "M", "N", "O", "P", "Q", "R", "S", "T", "U", "V", "W", "X", "Y", "Z", "[", "\\",
    "]", "^", "_", "U+0060", "a", "b", "c", "d", "e", "f", "g", "h", "i", "j", "k", "l", "m", "n",
    "o", "p", "q", "r", "s", "t", "u", "v", "w", "x", "y", "z", "{", "|", "}", "~", "", "", "",
    "", "", "", "", "", "", "", "", "", "", "", "", "", "", "", "", "", "", "",
    "", "", "", "", "", "", "", "", "", "", "", " ", "¡", "¢", "£", "¤", "¥", "¦", "§",
    "¨", "©", "ª", "«", "¬", "­", "®", "¯", "°", "±", "²", "³", "´", "µ", "¶", "·", "¸", "¹", "º",
    "»", "¼", "½", "¾", "¿", "À", "Á", "Â", "Ã", "Ä", "Å", "Æ", "Ç", "È", "É", "Ê", "Ë", "Ì", "Í",
    "Î", "Ï", "Ð", "Ñ", "Ò", "Ó", "Ô", "Õ", "Ö", "×", "Ø", "Ù", "Ú", "Û", "Ü", "Ý", "Þ", "ß", "à",
    "á", "â", "ã", "ä", "å", "æ", "ç", "è", "é", "ê", "ë", "ì", "í", "î", "ï", "ð", "ñ", "ò", "ó",
    "ô", "õ", "ö", "÷", "ø", "ù", "ú", "û", "ü", "ý", "þ", "ÿ">>
AsciiSet == {Latin1[i] : i \in 1..128}

IsToken(c) == Len(c) > 2 /\ SubSeq(c, 1, 2) = "U+"
HexDigit(d) == (CHOOSE i \in 1..16 : HexSeq[i] = d) - 1
RECURSIVE HexVal(_)
HexVal(h) ==
    IF Len(h) = 0 THEN 0
    ELSE 16 * HexVal(SubSeq(h, 1, Len(h) - 1)) + HexDigit(SubSeq(h, Len(h), Len(h)))
RECURSIVE HexStr(_, _)
HexStr(n, width) ==
    IF n = 0 /\ width <= 0 THEN ""
    ELSE HexStr(n \div 16, width - 1) \o HexSeq[(n % 16) + 1]
\* ord(c) and chr(n)
CodePoint(c) ==
    IF IsToken(c) THEN HexVal(SubSeq(c, 3, Len(c)))
    ELSE (CHOOSE i \in 1..256 : Latin1[i] = c) - 1
Chr(n) == IF n < 256 THEN Latin1[n + 1] ELSE "U+" \o HexStr(n, 4)
\* membership of a code point in a table of <<first, last>> ranges
InRanges(table, n) == \E i \in 1..Len(table) : n >= table[i][1] /\ n <= table[i][2]

\* [0-9]
IsAsciiDigit(c) == c \in Range(DigitSeq)
\* [A-Z]
IsUpper(c) == c \in Range(UpperSeq)
IsLower(c) == c \in Range(LowerSeq)

\* The decimal digits (category Nd) come in runs of ten, 0 to 9; these are the
\* code points of the zeros beyond U+00FF (U+0660 ARABIC-INDIC DIGIT ZERO, ...,
\* U+FF10 FULLWIDTH DIGIT ZERO, ...).
DigitZeros == {
    1632, 1776, 1984, 2406, 2534, 2662, 2790, 2918, 3046, 3174, 3302, 3430, 3558, 3664, 3792, 3872,
    4160, 4240, 6112, 6160, 6470, 6608, 6784, 6800, 6992, 7088, 7232, 7248, 42528, 43216, 43264,
    43472, 43504, 43600, 44016, 65296, 66720, 68912, 69734, 69872, 69942, 70096, 70384, 70736,
    70864, 71248, 71360, 71472, 71904, 72016, 72784, 73040, 73120, 92768, 92864, 93008, 120782,
    120792, 120802, 120812, 120822, 123200, 123632, 125264, 130032}
\* \d on a str pattern, and what str.isdigit() and int() take of the characters
\* that \D leaves: a decimal digit of any script
IsDigit(c) ==
    \/ IsAsciiDigit(c)
    \/ IsToken(c) /\ \E z \in DigitZeros : CodePoint(c) - z \in 0..9
\* int(ch) for a digit character
DigitVal(c) ==
    IF IsAsciiDigit(c) THEN (CHOOSE i \in 1..10 : DigitSeq[i] = c) - 1
    ELSE CodePoint(c) - (CHOOSE z \in DigitZeros : CodePoint(c) - z \in 0..9)

\* \s and the characters str.strip() removes.  Up to U+00FF: tab, line feed,
\* vertical tab, form feed, carriage return, U+001C to U+001F, space, next line
\* U+0085 and the no-break space U+00A0; beyond: U+1680, U+2000 to U+200A,
\* U+2028, U+2029, U+202F, U+205F, U+3000.
SpaceLatin1 == {
    "\t", "\n", "", "\f", "\r", "", "", "", "", " ", "", " "}
SpaceBeyond == {
    5760, 8192, 8193, 8194, 8195, 8196, 8197, 8198, 8199, 8200, 8201, 8202, 8232, 8233, 8239, 8287,
    12288}
IsSpace(c) ==
    \/ c \in SpaceLatin1
    \/ IsToken(c) /\ CodePoint(c) \in SpaceBeyond

\* \w on a str pattern: "_" or a character str.isalnum() takes; the ranges of
\* these from U+0080 on
WordRanges == <<
    <<170, 170>>, <<178, 179>>, <<181, 181>>, <<185, 186>>, <<188, 190>>, <<192, 214>>,
    <<216, 246>>, <<248, 705>>, <<710, 721>>, <<736, 740>>, <<748, 748>>, <<750, 750>>,
    <<880, 884>>, <<886, 887>>, <<890, 893>>, <<895, 895>>, <<902, 902>>, <<904, 906>>,
    <<908, 908>>, <<910, 929>>, <<931, 1013>>, <<1015, 1153>>, <<1162, 1327>>, <<1329, 1366>>,
    <<1369, 1369>>, <<1376, 1416>>, <<1488, 1514>>, <<1519, 1522>>, <<1568, 1610>>, <<1632, 1641>>,
    <<1646, 1647>>, <<1649, 1747>>, <<1749, 1749>>, <<1765, 1766>>, <<1774, 1788>>, <<1791, 1791>>,
    <<1808, 1808>>, <<1810, 1839>>, <<1869, 1957>>, <<1969, 1969>>, <<1984, 2026>>, <<2036, 2037>>,
    <<2042, 2042>>, <<2048, 2069>>, <<2074, 2074>>, <<2084, 2084>>, <<2088, 2088>>, <<2112, 2136>>,
    <<2144, 2154>>, <<2160, 2183>>, <<2185, 2190>>, <<2208, 2249>>, <<2308, 2361>>, <<2365, 2365>>,
    <<2384, 2384>>, <<2392, 2401>>, <<2406, 2415>>, <<2417, 2432>>, <<2437, 2444>>, <<2447, 2448>>,
    <<2451, 2472>>, <<2474, 2480>>, <<2482, 2482>>, <<2486, 2489>>, <<2493, 2493>>, <<2510, 2510>>,
    <<2524, 2525>>, <<2527, 2529>>, <<2534, 2545>>, <<2548, 2553>>, <<2556, 2556>>, <<2565, 2570>>,
    <<2575, 2576>>, <<2579, 2600>>, <<2602, 2608>>, <<2610, 2611>>, <<2613, 2614>>, <<2616, 2617>>,
    <<2649, 2652>>, <<2654, 2654>>, <<2662, 2671>>, <<2674, 2676>>, <<2693, 2701>>, <<2703, 2705>>,
    <<2707, 2728>>, <<2730, 2736>>, <<2738, 2739>>, <<2741, 2745>>, <<2749, 2749>>, <<2768, 2768>>,
    <<2784, 2785>>, <<2790, 2799>>, <<2809, 2809>>, <<2821, 2828>>, <<2831, 2832>>, <<2835, 2856>>,
    <<2858, 2864>>, <<2866, 2867>>, <<2869, 2873>>, <<2877, 2877>>, <<2908, 2909>>, <<2911, 2913>>,
    <<2918, 2927>>, <<2929, 2935>>, <<2947, 2947>>, <<2949, 2954>>, <<2958, 2960>>, <<2962, 2965>>,
    <<2969, 2970>>, <<2972, 2972>>, <<2974, 2975>>, <<2979, 2980>>, <<2984, 2986>>, <<2990, 3001>>,
    <<3024, 3024>>, <<3046, 3058>>, <<3077, 3084>>, <<3086, 3088>>, <<3090, 3112>>, <<3114, 3129>>,
    <<3133, 3133>>, <<3160, 3162>>, <<3165, 3165>>, <<3168, 3169>>, <<3174, 3183>>, <<3192, 3198>>,
    <<3200, 3200>>, <<3205, 3212>>, <<3214, 3216>>, <<3218, 3240>>, <<3242, 3251>>, <<3253, 3257>>,
    <<3261, 3261>>, <<3293, 3294>>, <<3296, 3297>>, <<3302, 3311>>, <<3313, 3314>>, <<3332, 3340>>,
    <<3342, 3344>>, <<3346, 3386>>, <<3389, 3389>>, <<3406, 3406>>, <<3412, 3414>>, <<3416, 3425>>,
    <<3430, 3448>>, <<3450, 3455>>, <<3461, 3478>>, <<3482, 3505>>, <<3507, 3515>>, <<3517, 3517>>,
    <<3520, 3526>>, <<3558, 3567>>, <<3585, 3632>>, <<3634, 3635>>, <<3648, 3654>>, <<3664, 3673>>,
    <<3713, 3714>>, <<3716, 3716>>, <<3718, 3722>>, <<3724, 3747>>, <<3749, 3749>>, <<3751, 3760>>,
    <<3762, 3763>>, <<3773, 3773>>, <<3776, 3780>>, <<3782, 3782>>, <<3792, 3801>>, <<3804, 3807>>,
    <<3840, 3840>>, <<3872, 3891>>, <<3904, 3911>>, <<3913, 3948>>, <<3976, 3980>>, <<4096, 4138>>,
    <<4159, 4169>>, <<4176, 4181>>, <<4186, 4189>>, <<4193, 4193>>, <<4197, 4198>>, <<4206, 4208>>,
    <<4213, 4225>>, <<4238, 4238>>, <<4240, 4249>>, <<4256, 4293>>, <<4295, 4295>>, <<4301, 4301>>,
    <<4304, 4346>>, <<4348, 4680>>, <<4682, 4685>>, <<4688, 4694>>, <<4696, 4696>>, <<4698, 4701>>,
    <<4704, 4744>>, <<4746, 4749>>, <<4752, 4784>>, <<4786, 4789>>, <<4792, 4798>>, <<4800, 4800>>,
    <<4802, 4805>>, <<4808, 4822>>, <<4824, 4880>>, <<4882, 4885>>, <<4888, 4954>>, <<4969, 4988>>,
    <<4992, 5007>>, <<5024, 5109>>, <<5112, 5117>>, <<5121, 5740>>, <<5743, 5759>>, <<5761, 5786>>,
    <<5792, 5866>>, <<5870, 5880>>, <<5888, 5905>>, <<5919, 5937>>, <<5952, 5969>>, <<5984, 5996>>,
    <<5998, 6000>>, <<6016, 6067>>, <<6103, 6103>>, <<6108, 6108>>, <<6112, 6121>>, <<6128, 6137>>,
    <<6160, 6169>>, <<6176, 6264>>, <<6272, 6276>>, <<6279, 6312>>, <<6314, 6314>>, <<6320, 6389>>,
    <<6400, 6430>>, <<6470, 6509>>, <<6512, 6516>>, <<6528, 6571>>, <<6576, 6601>>, <<6608, 6618>>,
    <<6656, 6678>>, <<6688, 6740>>, <<6784, 6793>>, <<6800, 6809>>, <<6823, 6823>>, <<6917, 6963>>,
    <<6981, 6988>>, <<6992, 7001>>, <<7043, 7072>>, <<7086, 7141>>, <<7168, 7203>>, <<7232, 7241>>,
    <<7245, 7293>>, <<7296, 7304>>, <<7312, 7354>>, <<7357, 7359>>, <<7401, 7404>>, <<7406, 7411>>,
    <<7413, 7414>>, <<7418, 7418>>, <<7424, 7615>>, <<7680, 7957>>, <<7960, 7965>>, <<7968, 8005>>,
    <<8008, 8013>>, <<8016, 8023>>, <<8025, 8025>>, <<8027, 8027>>, <<8029, 8029>>, <<8031, 8061>>,
    <<8064, 8116>>, <<8118, 8124>>, <<8126, 8126>>, <<8130, 8132>>, <<8134, 8140>>, <<8144, 8147>>,
    <<8150, 8155>>, <<8160, 8172>>, <<8178, 8180>>, <<8182, 8188>>, <<8304, 8305>>, <<8308, 8313>>,
    <<8319, 8329>>, <<8336, 8348>>, <<8450, 8450>>, <<8455, 8455>>, <<8458, 8467>>, <<8469, 8469>>,
    <<8473, 8477>>, <<8484, 8484>>, <<8486, 8486>>, <<8488, 8488>>, <<8490, 8493>>, <<8495, 8505>>,
    <<8508, 8511>>, <<8517, 8521>>, <<8526, 8526>>, <<8528, 8585>>, <<9312, 9371>>, <<9450, 9471>>,
    <<10102, 10131>>, <<11264, 11492>>, <<11499, 11502>>, <<11506, 11507>>, <<11517, 11517>>,
    <<11520, 11557>>, <<11559, 11559>>, <<11565, 11565>>, <<11568, 11623>>, <<11631, 11631>>,
    <<11648, 11670>>, <<11680, 11686>>, <<11688, 11694>>, <<11696, 11702>>, <<11704, 11710>>,
    <<11712, 11718>>, <<11720, 11726>>, <<11728, 11734>>, <<11736, 11742>>, <<11823, 11823>>,
    <<12293, 12295>>, <<12321, 12329>>, <<12337, 12341>>, <<12344, 12348>>, <<12353, 12438>>,
    <<12445, 12447>>, <<12449, 12538>>, <<12540, 12543>>, <<12549, 12591>>, <<12593, 12686>>,
    <<12690, 12693>>, <<12704, 12735>>, <<12784, 12799>>, <<12832, 12841>>, <<12872, 12879>>,
    <<12881, 12895>>, <<12928, 12937>>, <<12977, 12991>>, <<13312, 19903>>, <<19968, 42124>>,
    <<42192, 42237>>, <<42240, 42508>>, <<42512, 42539>>, <<42560, 42606>>, <<42623, 42653>>,
    <<42656, 42735>>, <<42775, 42783>>, <<42786, 42888>>, <<42891, 42954>>, <<42960, 42961>>,
    <<42963, 42963>>, <<42965, 42969>>, <<42994, 43009>>, <<43011, 43013>>, <<43015, 43018>>,
    <<43020, 43042>>, <<43056, 43061>>, <<43072, 43123>>, <<43138, 43187>>, <<43216, 43225>>,
    <<43250, 43255>>, <<43259, 43259>>, <<43261, 43262>>, <<43264, 43301>>, <<43312, 43334>>,
    <<43360, 43388>>, <<43396, 43442>>, <<43471, 43481>>, <<43488, 43492>>, <<43494, 43518>>,
    <<43520, 43560>>, <<43584, 43586>>, <<43588, 43595>>, <<43600, 43609>>, <<43616, 43638>>,
    <<43642, 43642>>, <<43646, 43695>>, <<43697, 43697>>, <<43701, 43702>>, <<43705, 43709>>,
    <<43712, 43712>>, <<43714, 43714>>, <<43739, 43741>>, <<43744, 43754>>, <<43762, 43764>>,
    <<43777, 43782>>, <<43785, 43790>>, <<43793, 43798>>, <<43808, 43814>>, <<43816, 43822>>,
    <<43824, 43866>>, <<43868, 43881>>, <<43888, 44002>>, <<44016, 44025>>, <<44032, 55203>>,
    <<55216, 55238>>, <<55243, 55291>>, <<63744, 64109>>, <<64112, 64217>>, <<64256, 64262>>,
    <<64275, 64279>>, <<64285, 64285>>, <<64287, 64296>>, <<64298, 64310>>, <<64312, 64316>>,
    <<64318, 64318>>, <<64320, 64321>>, <<64323, 64324>>, <<64326, 64433>>, <<64467, 64829>>,
    <<64848, 64911>>, <<64914, 64967>>, <<65008, 65019>>, <<65136, 65140>>, <<65142, 65276>>,
    <<65296, 65305>>, <<65313, 65338>>, <<65345, 65370>>, <<65382, 65470>>, <<65474, 65479>>,
    <<65482, 65487>>, <<65490, 65495>>, <<65498, 65500>>, <<65536, 65547>>, <<65549, 65574>>,
    <<65576, 65594>>, <<65596, 65597>>, <<65599, 65613>>, <<65616, 65629>>, <<65664, 65786>>,
    <<65799, 65843>>, <<65856, 65912>>, <<65930, 65931>>, <<66176, 66204>>, <<66208, 66256>>,
    <<66273, 66299>>, <<66304, 66339>>, <<66349, 66378>>, <<66384, 66421>>, <<66432, 66461>>,
    <<66464, 66499>>, <<66504, 66511>>, <<66513, 66517>>, <<66560, 66717>>, <<66720, 66729>>,
    <<66736, 66771>>, <<66776, 66811>>, <<66816, 66855>>, <<66864, 66915>>, <<66928, 66938>>,
    <<66940, 66954>>, <<66956, 66962>>, <<66964, 66965>>, <<66967, 66977>>, <<66979, 66993>>,
    <<66995, 67001>>, <<67003, 67004>>, <<67072, 67382>>, <<67392, 67413>>, <<67424, 67431>>,
    <<67456, 67461>>, <<67463, 67504>>, <<67506, 67514>>, <<67584, 67589>>, <<67592, 67592>>,
    <<67594, 67637>>, <<67639, 67640>>, <<67644, 67644>>, <<67647, 67669>>, <<67672, 67702>>,
    <<67705, 67742>>, <<67751, 67759>>, <<67808, 67826>>, <<67828, 67829>>, <<67835, 67867>>,
    <<67872, 67897>>, <<67968, 68023>>, <<68028, 68047>>, <<68050, 68096>>, <<68112, 68115>>,
    <<68117, 68119>>, <<68121, 68149>>, <<68160, 68168>>, <<68192, 68222>>, <<68224, 68255>>,
    <<68288, 68295>>, <<68297, 68324>>, <<68331, 68335>>, <<68352, 68405>>, <<68416, 68437>>,
    <<68440, 68466>>, <<68472, 68497>>, <<68521, 68527>>, <<68608, 68680>>, <<68736, 68786>>,
    <<68800, 68850>>, <<68858, 68899>>, <<68912, 68921>>, <<69216, 69246>>, <<69248, 69289>>,
    <<69296, 69297>>, <<69376, 69415>>, <<69424, 69445>>, <<69457, 69460>>, <<69488, 69505>>,
    <<69552, 69579>>, <<69600, 69622>>, <<69635, 69687>>, <<69714, 69743>>, <<69745, 69746>>,
    <<69749, 69749>>, <<69763, 69807>>, <<69840, 69864>>, <<69872, 69881>>, <<69891, 69926>>,
    <<69942, 69951>>, <<69956, 69956>>, <<69959, 69959>>, <<69968, 70002>>, <<70006, 70006>>,
    <<70019, 70066>>, <<70081, 70084>>, <<70096, 70106>>, <<70108, 70108>>, <<70113, 70132>>,
    <<70144, 70161>>, <<70163, 70187>>, <<70272, 70278>>, <<70280, 70280>>, <<70282, 70285>>,
    <<70287, 70301>>, <<70303, 70312>>, <<70320, 70366>>, <<70384, 70393>>, <<70405, 70412>>,
    <<70415, 70416>>, <<70419, 70440>>, <<70442, 70448>>, <<70450, 70451>>, <<70453, 70457>>,
    <<70461, 70461>>, <<70480, 70480>>, <<70493, 70497>>, <<70656, 70708>>, <<70727, 70730>>,
    <<70736, 70745>>, <<70751, 70753>>, <<70784, 70831>>, <<70852, 70853>>, <<70855, 70855>>,
    <<70864, 70873>>, <<71040, 71086>>, <<71128, 71131>>, <<71168, 71215>>, <<71236, 71236>>,
    <<71248, 71257>>, <<71296, 71338>>, <<71352, 71352>>, <<71360, 71369>>, <<71424, 71450>>,
    <<71472, 71483>>, <<71488, 71494>>, <<71680, 71723>>, <<71840, 71922>>, <<71935, 71942>>,
    <<71945, 71945>>, <<71948, 71955>>, <<71957, 71958>>, <<71960, 71983>>, <<71999, 71999>>,
    <<72001, 72001>>, <<72016, 72025>>, <<72096, 72103>>, <<72106, 72144>>, <<72161, 72161>>,
    <<72163, 72163>>, <<72192, 72192>>, <<72203, 72242>>, <<72250, 72250>>, <<72272, 72272>>,
    <<72284, 72329>>, <<72349, 72349>>, <<72368, 72440>>, <<72704, 72712>>, <<72714, 72750>>,
    <<72768, 72768>>, <<72784, 72812>>, <<72818, 72847>>, <<72960, 72966>>, <<72968, 72969>>,
    <<72971, 73008>>, <<73030, 73030>>, <<73040, 73049>>, <<73056, 73061>>, <<73063, 73064>>,
    <<73066, 73097>>, <<73112, 73112>>, <<73120, 73129>>, <<73440, 73458>>, <<73648, 73648>>,
    <<73664, 73684>>, <<73728, 74649>>, <<74752, 74862>>, <<74880, 75075>>, <<77712, 77808>>,
    <<77824, 78894>>, <<82944, 83526>>, <<92160, 92728>>, <<92736, 92766>>, <<92768, 92777>>,
    <<92784, 92862>>, <<92864, 92873>>, <<92880, 92909>>, <<92928, 92975>>, <<92992, 92995>>,
    <<93008, 93017>>, <<93019, 93025>>, <<93027, 93047>>, <<93053, 93071>>, <<93760, 93846>>,
    <<93952, 94026>>, <<94032, 94032>>, <<94099, 94111>>, <<94176, 94177>>, <<94179, 94179>>,
    <<94208, 100343>>, <<100352, 101589>>, <<101632, 101640>>, <<110576, 110579>>,
    <<110581, 110587>>, <<110589, 110590>>, <<110592, 110882>>, <<110928, 110930>>,
    <<110948, 110951>>, <<110960, 111355>>, <<113664, 113770>>, <<113776, 113788>>,
    <<113792, 113800>>, <<113808, 113817>>, <<119520, 119539>>, <<119648, 119672>>,
    <<119808, 119892>>, <<119894, 119964>>, <<119966, 119967>>, <<119970, 119970>>,
    <<119973, 119974>>, <<119977, 119980>>, <<119982, 119993>>, <<119995, 119995>>,
    <<119997, 120003>>, <<120005, 120069>>, <<120071, 120074>>, <<120077, 120084>>,
    <<120086, 120092>>, <<120094, 120121>>, <<120123, 120126>>, <<120128, 120132>>,
    <<120134, 120134>>, <<120138, 120144>>, <<120146, 120485>>, <<120488, 120512>>,
    <<120514, 120538>>, <<120540, 120570>>, <<120572, 120596>>, <<120598, 120628>>,
    <<120630, 120654>>, <<120656, 120686>>, <<120688, 120712>>, <<120714, 120744>>,
    <<120746, 120770>>, <<120772, 120779>>, <<120782, 120831>>, <<122624, 122654>>,
    <<123136, 123180>>, <<123191, 123197>>, <<123200, 123209>>, <<123214, 123214>>,
    <<123536, 123565>>, <<123584, 123627>>, <<123632, 123641>>, <<124896, 124902>>,
    <<124904, 124907>>, <<124909, 124910>>, <<124912, 124926>>, <<124928, 125124>>,
    <<125127, 125135>>, <<125184, 125251>>, <<125259, 125259>>, <<125264, 125273>>,
    <<126065, 126123>>, <<126125, 126127>>, <<126129, 126132>>, <<126209, 126253>>,
    <<126255, 126269>>, <<126464, 126467>>, <<126469, 126495>>, <<126497, 126498>>,
    <<126500, 126500>>, <<126503, 126503>>, <<126505, 126514>>, <<126516, 126519>>,
    <<126521, 126521>>, <<126523, 126523>>, <<126530, 126530>>, <<126535, 126535>>,
    <<126537, 126537>>, <<126539, 126539>>, <<126541, 126543>>, <<126545, 126546>>,
    <<126548, 126548>>, <<126551, 126551>>, <<126553, 126553>>, <<126555, 126555>>,
    <<126557, 126557>>, <<126559, 126559>>, <<126561, 126562>>, <<126564, 126564>>,
    <<126567, 126570>>, <<126572, 126578>>, <<126580, 126583>>, <<126585, 126588>>,
    <<126590, 126590>>, <<126592, 126601>>, <<126603, 126619>>, <<126625, 126627>>,
    <<126629, 126633>>, <<126635, 126651>>, <<127232, 127244>>, <<130032, 130041>>,
    <<131072, 173791>>, <<173824, 177976>>, <<177984, 178205>>, <<178208, 183969>>,
    <<183984, 191456>>, <<194560, 195101>>, <<196608, 201546>>>>
IsWord(c) ==
    \/ IsAsciiDigit(c) \/ IsUpper(c) \/ IsLower(c) \/ c = "_"
    \/ c \notin AsciiSet /\ InRanges(WordRanges, CodePoint(c))

\* str.upper() of one character from U+0080 on.  UpperRuns: <<first, last,
\* step, delta>>, every step-th character from first to last moves by delta;
\* UpperMany: the characters that become several (U+00DF becomes SS).
UpperRuns == <<
    <<181, 181, 1, 743>>, <<224, 246, 1, -32>>, <<248, 254, 1, -32>>, <<255, 255, 1, 121>>,
    <<257, 303, 2, -1>>, <<305, 305, 1, -232>>, <<307, 311, 2, -1>>, <<314, 328, 2, -1>>,
    <<331, 375, 2, -1>>, <<378, 382, 2, -1>>, <<383, 383, 1, -300>>, <<384, 384, 1, 195>>,
    <<387, 389, 2, -1>>, <<392, 392, 1, -1>>, <<396, 396, 1, -1>>, <<402, 402, 1, -1>>,
    <<405, 405, 1, 97>>, <<409, 409, 1, -1>>, <<410, 410, 1, 163>>, <<414, 414, 1, 130>>,
    <<417, 421, 2, -1>>, <<424, 424, 1, -1>>, <<429, 429, 1, -1>>, <<432, 432, 1, -1>>,
    <<436, 438, 2, -1>>, <<441, 441, 1, -1>>, <<445, 445, 1, -1>>, <<447, 447, 1, 56>>,
    <<453, 453, 1, -1>>, <<454, 454, 1, -2>>, <<456, 456, 1, -1>>, <<457, 457, 1, -2>>,
    <<459, 459, 1, -1>>, <<460, 460, 1, -2>>, <<462, 476, 2, -1>>, <<477, 477, 1, -79>>,
    <<479, 495, 2, -1>>, <<498, 498, 1, -1>>, <<499, 499, 1, -2>>, <<501, 501, 1, -1>>,
    <<505, 543, 2, -1>>, <<547, 563, 2, -1>>, <<572, 572, 1, -1>>, <<575, 576, 1, 10815>>,
    <<578, 578, 1, -1>>, <<583, 591, 2, -1>>, <<592, 592, 1, 10783>>, <<593, 593, 1, 10780>>,
    <<594, 594, 1, 10782>>, <<595, 595, 1, -210>>, <<596, 596, 1, -206>>, <<598, 599, 1, -205>>,
    <<601, 601, 1, -202>>, <<603, 603, 1, -203>>, <<604, 604, 1, 42319>>, <<608, 608, 1, -205>>,
    <<609, 609, 1, 42315>>, <<611, 611, 1, -207>>, <<613, 613, 1, 42280>>, <<614, 614, 1, 42308>>,
    <<616, 616, 1, -209>>, <<617, 617, 1, -211>>, <<618, 618, 1, 42308>>, <<619, 619, 1, 10743>>,
    <<620, 620, 1, 42305>>, <<623, 623, 1, -211>>, <<625, 625, 1, 10749>>, <<626, 626, 1, -213>>,
    <<629, 629, 1, -214>>, <<637, 637, 1, 10727>>, <<640, 640, 1, -218>>, <<642, 642, 1, 42307>>,
    <<643, 643, 1, -218>>, <<647, 647, 1, 42282>>, <<648, 648, 1, -218>>, <<649, 649, 1, -69>>,
    <<650, 651, 1, -217>>, <<652, 652, 1, -71>>, <<658, 658, 1, -219>>, <<669, 669, 1, 42261>>,
    <<670, 670, 1, 42258>>, <<837, 837, 1, 84>>, <<881, 883, 2, -1>>, <<887, 887, 1, -1>>,
    <<891, 893, 1, 130>>, <<940, 940, 1, -38>>, <<941, 943, 1, -37>>, <<945, 961, 1, -32>>,
    <<962, 962, 1, -31>>, <<963, 971, 1, -32>>, <<972, 972, 1, -64>>, <<973, 974, 1, -63>>,
    <<976, 976, 1, -62>>, <<977, 977, 1, -57>>, <<981, 981, 1, -47>>, <<982, 982, 1, -54>>,
    <<983, 983, 1, -8>>, <<985, 1007, 2, -1>>, <<1008, 1008, 1, -86>>, <<1009, 1009, 1, -80>>,
    <<1010, 1010, 1, 7>>, <<1011, 1011, 1, -116>>, <<1013, 1013, 1, -96>>, <<1016, 1016, 1, -1>>,
    <<1019, 1019, 1, -1>>, <<1072, 1103, 1, -32>>, <<1104, 1119, 1, -80>>, <<1121, 1153, 2, -1>>,
    <<1163, 1215, 2, -1>>, <<1218, 1230, 2, -1>>, <<1231, 1231, 1, -15>>, <<1233, 1327, 2, -1>>,
    <<1377, 1414, 1, -48>>, <<4304, 4346, 1, 3008>>, <<4349, 4351, 1, 3008>>,
    <<5112, 5117, 1, -8>>, <<7296, 7296, 1, -6254>>, <<7297, 7297, 1, -6253>>,
    <<7298, 7298, 1, -6244>>, <<7299, 7300, 1, -6242>>, <<7301, 7301, 1, -6243>>,
    <<7302, 7302, 1, -6236>>, <<7303, 7303, 1, -6181>>, <<7304, 7304, 1, 35266>>,
    <<7545, 7545, 1, 35332>>, <<7549, 7549, 1, 3814>>, <<7566, 7566, 1, 35384>>,
    <<7681, 7829, 2, -1>>, <<7835, 7835, 1, -59>>, <<7841, 7935, 2, -1>>, <<7936, 7943, 1, 8>>,
    <<7952, 7957, 1, 8>>, <<7968, 7975, 1, 8>>, <<7984, 7991, 1, 8>>, <<8000, 8005, 1, 8>>,
    <<8017, 8023, 2, 8>>, <<8032, 8039, 1, 8>>, <<8048, 8049, 1, 74>>, <<8050, 8053, 1, 86>>,
    <<8054, 8055, 1, 100>>, <<8056, 8057, 1, 128>>, <<8058, 8059, 1, 112>>, <<8060, 8061, 1, 126>>,
    <<8112, 8113, 1, 8>>, <<8126, 8126, 1, -7205>>, <<8144, 8145, 1, 8>>, <<8160, 8161, 1, 8>>,
    <<8165, 8165, 1, 7>>, <<8526, 8526, 1, -28>>, <<8560, 8575, 1, -16>>, <<8580, 8580, 1, -1>>,
    <<9424, 9449, 1, -26>>, <<11312, 11359, 1, -48>>, <<11361, 11361, 1, -1>>,
    <<11365, 11365, 1, -10795>>, <<11366, 11366, 1, -10792>>, <<11368, 11372, 2, -1>>,
    <<11379, 11379, 1, -1>>, <<11382, 11382, 1, -1>>, <<11393, 11491, 2, -1>>,
    <<11500, 11502, 2, -1>>, <<11507, 11507, 1, -1>>, <<11520, 11557, 1, -7264>>,
    <<11559, 11559, 1, -7264>>, <<11565, 11565, 1, -7264>>, <<42561, 42605, 2, -1>>,
    <<42625, 42651, 2, -1>>, <<42787, 42799, 2, -1>>, <<42803, 42863, 2, -1>>,
    <<42874, 42876, 2, -1>>, <<42879, 42887, 2, -1>>, <<42892, 42892, 1, -1>>,
    <<42897, 42899, 2, -1>>, <<42900, 42900, 1, 48>>, <<42903, 42921, 2, -1>>,
    <<42933, 42947, 2, -1>>, <<42952, 42954, 2, -1>>, <<42961, 42961, 1, -1>>,
    <<42967, 42969, 2, -1>>, <<42998, 42998, 1, -1>>, <<43859, 43859, 1, -928>>,
    <<43888, 43967, 1, -38864>>, <<65345, 65370, 1, -32>>, <<66600, 66639, 1, -40>>,
    <<66776, 66811, 1, -40>>, <<66967, 67003, 2, -39>>, <<66968, 66976, 2, -39>>,
    <<66980, 66992, 2, -39>>, <<66996, 67000, 2, -39>>, <<67004, 67004, 1, -39>>,
    <<68800, 68850, 1, -64>>, <<71872, 71903, 1, -32>>, <<93792, 93823, 1, -32>>,
    <<125218, 125251, 1, -34>>>>
UpperMany == <<
    <<223, <<83, 83>>>>, <<329, <<700, 78>>>>, <<496, <<74, 780>>>>, <<912, <<921, 776, 769>>>>,
    <<944, <<933, 776, 769>>>>, <<1415, <<1333, 1362>>>>, <<7830, <<72, 817>>>>,
    <<7831, <<84, 776>>>>, <<7832, <<87, 778>>>>, <<7833, <<89, 778>>>>, <<7834, <<65, 702>>>>,
    <<8016, <<933, 787>>>>, <<8018, <<933, 787, 768>>>>, <<8020, <<933, 787, 769>>>>,
    <<8022, <<933, 787, 834>>>>, <<8064, <<7944, 921>>>>, <<8065, <<7945, 921>>>>,
    <<8066, <<7946, 921>>>>, <<8067, <<7947, 921>>>>, <<8068, <<7948, 921>>>>,
    <<8069, <<7949, 921>>>>, <<8070, <<7950, 921>>>>, <<8071, <<7951, 921>>>>,
    <<8072, <<7944, 921>>>>, <<8073, <<7945, 921>>>>, <<8074, <<7946, 921>>>>,
    <<8075, <<7947, 921>>>>, <<8076, <<7948, 921>>>>, <<8077, <<7949, 921>>>>,
    <<8078, <<7950, 921>>>>, <<8079, <<7951, 921>>>>, <<8080, <<7976, 921>>>>,
    <<8081, <<7977, 921>>>>, <<8082, <<7978, 921>>>>, <<8083, <<7979, 921>>>>,
    <<8084, <<7980, 921>>>>, <<8085, <<7981, 921>>>>, <<8086, <<7982, 921>>>>,
    <<8087, <<7983, 921>>>>, <<8088, <<7976, 921>>>>, <<8089, <<7977, 921>>>>,
    <<8090, <<7978, 921>>>>, <<8091, <<7979, 921>>>>, <<8092, <<7980, 921>>>>,
    <<8093, <<7981, 921>>>>, <<8094, <<7982, 921>>>>, <<8095, <<7983, 921>>>>,
    <<8096, <<8040, 921>>>>, <<8097, <<8041, 921>>>>, <<8098, <<8042, 921>>>>,
    <<8099, <<8043, 921>>>>, <<8100, <<8044, 921>>>>, <<8101, <<8045, 921>>>>,
    <<8102, <<8046, 921>>>>, <<8103, <<8047, 921>>>>, <<8104, <<8040, 921>>>>,
    <<8105, <<8041, 921>>>>, <<8106, <<8042, 921>>>>, <<8107, <<8043, 921>>>>,
    <<8108, <<8044, 921>>>>, <<8109, <<8045, 921>>>>, <<8110, <<8046, 921>>>>,
    <<8111, <<8047, 921>>>>, <<8114, <<8122, 921>>>>, <<8115, <<913, 921>>>>,
    <<8116, <<902, 921>>>>, <<8118, <<913, 834>>>>, <<8119, <<913, 834, 921>>>>,
    <<8124, <<913, 921>>>>, <<8130, <<8138, 921>>>>, <<8131, <<919, 921>>>>,
    <<8132, <<905, 921>>>>, <<8134, <<919, 834>>>>, <<8135, <<919, 834, 921>>>>,
    <<8140, <<919, 921>>>>, <<8146, <<921, 776, 768>>>>, <<8147, <<921, 776, 769>>>>,
    <<8150, <<921, 834>>>>, <<8151, <<921, 776, 834>>>>, <<8162, <<933, 776, 768>>>>,
    <<8163, <<933, 776, 769>>>>, <<8164, <<929, 787>>>>, <<8166, <<933, 834>>>>,
    <<8167, <<933, 776, 834>>>>, <<8178, <<8186, 921>>>>, <<8179, <<937, 921>>>>,
    <<8180, <<911, 921>>>>, <<8182, <<937, 834>>>>, <<8183, <<937, 834, 921>>>>,
    <<8188, <<937, 921>>>>, <<64256, <<70, 70>>>>, <<64257, <<70, 73>>>>, <<64258, <<70, 76>>>>,
    <<64259, <<70, 70, 73>>>>, <<64260, <<70, 70, 76>>>>, <<64261, <<83, 84>>>>,
    <<64262, <<83, 84>>>>, <<64275, <<1348, 1350>>>>, <<64276, <<1348, 1333>>>>,
    <<64277, <<1348, 1339>>>>, <<64278, <<1358, 1350>>>>, <<64279, <<1348, 1341>>>>>>
\* str.lower(), likewise (U+0130 becomes i and U+0307)
LowerRuns == <<
    <<192, 214, 1, 32>>, <<216, 222, 1, 32>>, <<256, 302, 2, 1>>, <<306, 310, 2, 1>>,
    <<313, 327, 2, 1>>, <<330, 374, 2, 1>>, <<376, 376, 1, -121>>, <<377, 381, 2, 1>>,
    <<385, 385, 1, 210>>, <<386, 388, 2, 1>>, <<390, 390, 1, 206>>, <<391, 391, 1, 1>>,
    <<393, 394, 1, 205>>, <<395, 395, 1, 1>>, <<398, 398, 1, 79>>, <<399, 399, 1, 202>>,
    <<400, 400, 1, 203>>, <<401, 401, 1, 1>>, <<403, 403, 1, 205>>, <<404, 404, 1, 207>>,
    <<406, 406, 1, 211>>, <<407, 407, 1, 209>>, <<408, 408, 1, 1>>, <<412, 412, 1, 211>>,
    <<413, 413, 1, 213>>, <<415, 415, 1, 214>>, <<416, 420, 2, 1>>, <<422, 422, 1, 218>>,
    <<423, 423, 1, 1>>, <<425, 425, 1, 218>>, <<428, 428, 1, 1>>, <<430, 430, 1, 218>>,
    <<431, 431, 1, 1>>, <<433, 434, 1, 217>>, <<435, 437, 2, 1>>, <<439, 439, 1, 219>>,
    <<440, 440, 1, 1>>, <<444, 444, 1, 1>>, <<452, 452, 1, 2>>, <<453, 453, 1, 1>>,
    <<455, 455, 1, 2>>, <<456, 456, 1, 1>>, <<458, 458, 1, 2>>, <<459, 475, 2, 1>>,
    <<478, 494, 2, 1>>, <<497, 497, 1, 2>>, <<498, 500, 2, 1>>, <<502, 502, 1, -97>>,
    <<503, 503, 1, -56>>, <<504, 542, 2, 1>>, <<544, 544, 1, -130>>, <<546, 562, 2, 1>>,
    <<570, 570, 1, 10795>>, <<571, 571, 1, 1>>, <<573, 573, 1, -163>>, <<574, 574, 1, 10792>>,
    <<577, 577, 1, 1>>, <<579, 579, 1, -195>>, <<580, 580, 1, 69>>, <<581, 581, 1, 71>>,
    <<582, 590, 2, 1>>, <<880, 882, 2, 1>>, <<886, 886, 1, 1>>, <<895, 895, 1, 116>>,
    <<902, 902, 1, 38>>, <<904, 906, 1, 37>>, <<908, 908, 1, 64>>, <<910, 911, 1, 63>>,
    <<913, 929, 1, 32>>, <<931, 939, 1, 32>>, <<975, 975, 1, 8>>, <<984, 1006, 2, 1>>,
    <<1012, 1012, 1, -60>>, <<1015, 1015, 1, 1>>, <<1017, 1017, 1, -7>>, <<1018, 1018, 1, 1>>,
    <<1021, 1023, 1, -130>>, <<1024, 1039, 1, 80>>, <<1040, 1071, 1, 32>>, <<1120, 1152, 2, 1>>,
    <<1162, 1214, 2, 1>>, <<1216, 1216, 1, 15>>, <<1217, 1229, 2, 1>>, <<1232, 1326, 2, 1>>,
    <<1329, 1366, 1, 48>>, <<4256, 4293, 1, 7264>>, <<4295, 4295, 1, 7264>>,
    <<4301, 4301, 1, 7264>>, <<5024, 5103, 1, 38864>>, <<5104, 5109, 1, 8>>,
    <<7312, 7354, 1, -3008>>, <<7357, 7359, 1, -3008>>, <<7680, 7828, 2, 1>>,
    <<7838, 7838, 1, -7615>>, <<7840, 7934, 2, 1>>, <<7944, 7951, 1, -8>>, <<7960, 7965, 1, -8>>,
    <<7976, 7983, 1, -8>>, <<7992, 7999, 1, -8>>, <<8008, 8013, 1, -8>>, <<8025, 8031, 2, -8>>,
    <<8040, 8047, 1, -8>>, <<8072, 8079, 1, -8>>, <<8088, 8095, 1, -8>>, <<8104, 8111, 1, -8>>,
    <<8120, 8121, 1, -8>>, <<8122, 8123, 1, -74>>, <<8124, 8124, 1, -9>>, <<8136, 8139, 1, -86>>,
    <<8140, 8140, 1, -9>>, <<8152, 8153, 1, -8>>, <<8154, 8155, 1, -100>>, <<8168, 8169, 1, -8>>,
    <<8170, 8171, 1, -112>>, <<8172, 8172, 1, -7>>, <<8184, 8185, 1, -128>>,
    <<8186, 8187, 1, -126>>, <<8188, 8188, 1, -9>>, <<8486, 8486, 1, -7517>>,
    <<8490, 8490, 1, -8383>>, <<8491, 8491, 1, -8262>>, <<8498, 8498, 1, 28>>,
    <<8544, 8559, 1, 16>>, <<8579, 8579, 1, 1>>, <<9398, 9423, 1, 26>>, <<11264, 11311, 1, 48>>,
    <<11360, 11360, 1, 1>>, <<11362, 11362, 1, -10743>>, <<11363, 11363, 1, -3814>>,
    <<11364, 11364, 1, -10727>>, <<11367, 11371, 2, 1>>, <<11373, 11373, 1, -10780>>,
    <<11374, 11374, 1, -10749>>, <<11375, 11375, 1, -10783>>, <<11376, 11376, 1, -10782>>,
    <<11378, 11378, 1, 1>>, <<11381, 11381, 1, 1>>, <<11390, 11391, 1, -10815>>,
    <<11392, 11490, 2, 1>>, <<11499, 11501, 2, 1>>, <<11506, 11506, 1, 1>>, <<42560, 42604, 2, 1>>,
    <<42624, 42650, 2, 1>>, <<42786, 42798, 2, 1>>, <<42802, 42862, 2, 1>>, <<42873, 42875, 2, 1>>,
    <<42877, 42877, 1, -35332>>, <<42878, 42886, 2, 1>>, <<42891, 42891, 1, 1>>,
    <<42893, 42893, 1, -42280>>, <<42896, 42898, 2, 1>>, <<42902, 42920, 2, 1>>,
    <<42922, 42922, 1, -42308>>, <<42923, 42923, 1, -42319>>, <<42924, 42924, 1, -42315>>,
    <<42925, 42925, 1, -42305>>, <<42926, 42926, 1, -42308>>, <<42928, 42928, 1, -42258>>,
    <<42929, 42929, 1, -42282>>, <<42930, 42930, 1, -42261>>, <<42931, 42931, 1, 928>>,
    <<42932, 42946, 2, 1>>, <<42948, 42948, 1, -48>>, <<42949, 42949, 1, -42307>>,
    <<42950, 42950, 1, -35384>>, <<42951, 42953, 2, 1>>, <<42960, 42960, 1, 1>>,
    <<42966, 42968, 2, 1>>, <<42997, 42997, 1, 1>>, <<65313, 65338, 1, 32>>,
    <<66560, 66599, 1, 40>>, <<66736, 66771, 1, 40>>, <<66928, 66964, 2, 39>>,
    <<66929, 66937, 2, 39>>, <<66941, 66953, 2, 39>>, <<66957, 66961, 2, 39>>,
    <<66965, 66965, 1, 39>>, <<68736, 68786, 1, 64>>, <<71840, 71871, 1, 32>>,
    <<93760, 93791, 1, 32>>, <<125184, 125217, 1, 34>>>>
LowerMany == <<
    <<304, <<105, 775>>>>>>
InRun(r, n) == n >= r[1] /\ n <= r[2] /\ (n - r[1]) % r[3] = 0
CaseOf(n, runs, many) ==
    IF \E i \in 1..Len(many) : many[i][1] = n
    THEN LET t == many[CHOOSE i \in 1..Len(many) : many[i][1] = n][2]
         IN  [j \in 1..Len(t) |-> Chr(t[j])]
    ELSE IF \E i \in 1..Len(runs) : InRun(runs[i], n)
    THEN <<Chr(n + runs[CHOOSE i \in 1..Len(runs) : InRun(runs[i], n)][4])>>
    ELSE <<Chr(n)>>
\* ch.upper(), a str
UpperChar(c) ==
    IF IsLower(c) THEN <<UpperSeq[CHOOSE i \in 1..26 : LowerSeq[i] = c]>>
    ELSE IF c \in AsciiSet THEN <<c>>
    ELSE CaseOf(CodePoint(c), UpperRuns, UpperMany)
\* ch.lower(), a str
LowerChar(c) ==
    IF IsUpper(c) THEN <<LowerSeq[CHOOSE i \in 1..26 : UpperSeq[i] = c]>>
    ELSE IF c \in AsciiSet THEN <<c>>
    ELSE CaseOf(CodePoint(c), LowerRuns, LowerMany)

\* str.lower() writes a capital sigma U+03A3 as the final sigma U+03C2 when a
\* cased character precedes it and none follows, characters that case ignores
\* skipped on both sides.  The ranges of the characters that case ignores, and
\* of the cased ones among the others:
IgnorableRanges == <<
    <<39, 39>>, <<46, 46>>, <<58, 58>>, <<94, 94>>, <<96, 96>>, <<168, 168>>, <<173, 173>>,
    <<175, 175>>, <<180, 180>>, <<183, 184>>, <<688, 879>>, <<884, 885>>, <<890, 890>>,
    <<900, 901>>, <<903, 903>>, <<1155, 1161>>, <<1369, 1369>>, <<1375, 1375>>, <<1425, 1469>>,
    <<1471, 1471>>, <<1473, 1474>>, <<1476, 1477>>, <<1479, 1479>>, <<1524, 1524>>, <<1536, 1541>>,
    <<1552, 1562>>, <<1564, 1564>>, <<1600, 1600>>, <<1611, 1631>>, <<1648, 1648>>, <<1750, 1757>>,
    <<1759, 1768>>, <<1770, 1773>>, <<1807, 1807>>, <<1809, 1809>>, <<1840, 1866>>, <<1958, 1968>>,
    <<2027, 2037>>, <<2042, 2042>>, <<2045, 2045>>, <<2070, 2093>>, <<2137, 2139>>, <<2184, 2184>>,
    <<2192, 2193>>, <<2200, 2207>>, <<2249, 2306>>, <<2362, 2362>>, <<2364, 2364>>, <<2369, 2376>>,
    <<2381, 2381>>, <<2385, 2391>>, <<2402, 2403>>, <<2417, 2417>>, <<2433, 2433>>, <<2492, 2492>>,
    <<2497, 2500>>, <<2509, 2509>>, <<2530, 2531>>, <<2558, 2558>>, <<2561, 2562>>, <<2620, 2620>>,
    <<2625, 2626>>, <<2631, 2632>>, <<2635, 2637>>, <<2641, 2641>>, <<2672, 2673>>, <<2677, 2677>>,
    <<2689, 2690>>, <<2748, 2748>>, <<2753, 2757>>, <<2759, 2760>>, <<2765, 2765>>, <<2786, 2787>>,
    <<2810, 2815>>, <<2817, 2817>>, <<2876, 2876>>, <<2879, 2879>>, <<2881, 2884>>, <<2893, 2893>>,
    <<2901, 2902>>, <<2914, 2915>>, <<2946, 2946>>, <<3008, 3008>>, <<3021, 3021>>, <<3072, 3072>>,
    <<3076, 3076>>, <<3132, 3132>>, <<3134, 3136>>, <<3142, 3144>>, <<3146, 3149>>, <<3157, 3158>>,
    <<3170, 3171>>, <<3201, 3201>>, <<3260, 3260>>, <<3263, 3263>>, <<3270, 3270>>, <<3276, 3277>>,
    <<3298, 3299>>, <<3328, 3329>>, <<3387, 3388>>, <<3393, 3396>>, <<3405, 3405>>, <<3426, 3427>>,
    <<3457, 3457>>, <<3530, 3530>>, <<3538, 3540>>, <<3542, 3542>>, <<3633, 3633>>, <<3636, 3642>>,
    <<3654, 3662>>, <<3761, 3761>>, <<3764, 3772>>, <<3782, 3782>>, <<3784, 3789>>, <<3864, 3865>>,
    <<3893, 3893>>, <<3895, 3895>>, <<3897, 3897>>, <<3953, 3966>>, <<3968, 3972>>, <<3974, 3975>>,
    <<3981, 3991>>, <<3993, 4028>>, <<4038, 4038>>, <<4141, 4144>>, <<4146, 4151>>, <<4153, 4154>>,
    <<4157, 4158>>, <<4184, 4185>>, <<4190, 4192>>, <<4209, 4212>>, <<4226, 4226>>, <<4229, 4230>>,
    <<4237, 4237>>, <<4253, 4253>>, <<4348, 4348>>, <<4957, 4959>>, <<5906, 5908>>, <<5938, 5939>>,
    <<5970, 5971>>, <<6002, 6003>>, <<6068, 6069>>, <<6071, 6077>>, <<6086, 6086>>, <<6089, 6099>>,
    <<6103, 6103>>, <<6109, 6109>>, <<6155, 6159>>, <<6211, 6211>>, <<6277, 6278>>, <<6313, 6313>>,
    <<6432, 6434>>, <<6439, 6440>>, <<6450, 6450>>, <<6457, 6459>>, <<6679, 6680>>, <<6683, 6683>>,
    <<6742, 6742>>, <<6744, 6750>>, <<6752, 6752>>, <<6754, 6754>>, <<6757, 6764>>, <<6771, 6780>>,
    <<6783, 6783>>, <<6823, 6823>>, <<6832, 6862>>, <<6912, 6915>>, <<6964, 6964>>, <<6966, 6970>>,
    <<6972, 6972>>, <<6978, 6978>>, <<7019, 7027>>, <<7040, 7041>>, <<7074, 7077>>, <<7080, 7081>>,
    <<7083, 7085>>, <<7142, 7142>>, <<7144, 7145>>, <<7149, 7149>>, <<7151, 7153>>, <<7212, 7219>>,
    <<7222, 7223>>, <<7288, 7293>>, <<7376, 7378>>, <<7380, 7392>>, <<7394, 7400>>, <<7405, 7405>>,
    <<7412, 7412>>, <<7416, 7417>>, <<7468, 7530>>, <<7544, 7544>>, <<7579, 7679>>, <<8125, 8125>>,
    <<8127, 8129>>, <<8141, 8143>>, <<8157, 8159>>, <<8173, 8175>>, <<8189, 8190>>, <<8203, 8207>>,
    <<8216, 8217>>, <<8228, 8228>>, <<8231, 8231>>, <<8234, 8238>>, <<8288, 8292>>, <<8294, 8303>>,
    <<8305, 8305>>, <<8319, 8319>>, <<8336, 8348>>, <<8400, 8432>>, <<11388, 11389>>,
    <<11503, 11505>>, <<11631, 11631>>, <<11647, 11647>>, <<11744, 11775>>, <<11823, 11823>>,
    <<12293, 12293>>, <<12330, 12333>>, <<12337, 12341>>, <<12347, 12347>>, <<12441, 12446>>,
    <<12540, 12542>>, <<40981, 40981>>, <<42232, 42237>>, <<42508, 42508>>, <<42607, 42610>>,
    <<42612, 42621>>, <<42623, 42623>>, <<42652, 42655>>, <<42736, 42737>>, <<42752, 42785>>,
    <<42864, 42864>>, <<42888, 42890>>, <<42994, 42996>>, <<43000, 43001>>, <<43010, 43010>>,
    <<43014, 43014>>, <<43019, 43019>>, <<43045, 43046>>, <<43052, 43052>>, <<43204, 43205>>,
    <<43232, 43249>>, <<43263, 43263>>, <<43302, 43309>>, <<43335, 43345>>, <<43392, 43394>>,
    <<43443, 43443>>, <<43446, 43449>>, <<43452, 43453>>, <<43471, 43471>>, <<43493, 43494>>,
    <<43561, 43566>>, <<43569, 43570>>, <<43573, 43574>>, <<43587, 43587>>, <<43596, 43596>>,
    <<43632, 43632>>, <<43644, 43644>>, <<43696, 43696>>, <<43698, 43700>>, <<43703, 43704>>,
    <<43710, 43711>>, <<43713, 43713>>, <<43741, 43741>>, <<43756, 43757>>, <<43763, 43764>>,
    <<43766, 43766>>, <<43867, 43871>>, <<43881, 43883>>, <<44005, 44005>>, <<44008, 44008>>,
    <<44013, 44013>>, <<64286, 64286>>, <<64434, 64450>>, <<65024, 65039>>, <<65043, 65043>>,
    <<65056, 65071>>, <<65106, 65106>>, <<65109, 65109>>, <<65279, 65279>>, <<65287, 65287>>,
    <<65294, 65294>>, <<65306, 65306>>, <<65342, 65342>>, <<65344, 65344>>, <<65392, 65392>>,
    <<65438, 65439>>, <<65507, 65507>>, <<65529, 65531>>, <<66045, 66045>>, <<66272, 66272>>,
    <<66422, 66426>>, <<67456, 67461>>, <<67463, 67504>>, <<67506, 67514>>, <<68097, 68099>>,
    <<68101, 68102>>, <<68108, 68111>>, <<68152, 68154>>, <<68159, 68159>>, <<68325, 68326>>,
    <<68900, 68903>>, <<69291, 69292>>, <<69446, 69456>>, <<69506, 69509>>, <<69633, 69633>>,
    <<69688, 69702>>, <<69744, 69744>>, <<69747, 69748>>, <<69759, 69761>>, <<69811, 69814>>,
    <<69817, 69818>>, <<69821, 69821>>, <<69826, 69826>>, <<69837, 69837>>, <<69888, 69890>>,
    <<69927, 69931>>, <<69933, 69940>>, <<70003, 70003>>, <<70016, 70017>>, <<70070, 70078>>,
    <<70089, 70092>>, <<70095, 70095>>, <<70191, 70193>>, <<70196, 70196>>, <<70198, 70199>>,
    <<70206, 70206>>, <<70367, 70367>>, <<70371, 70378>>, <<70400, 70401>>, <<70459, 70460>>,
    <<70464, 70464>>, <<70502, 70508>>, <<70512, 70516>>, <<70712, 70719>>, <<70722, 70724>>,
    <<70726, 70726>>, <<70750, 70750>>, <<70835, 70840>>, <<70842, 70842>>, <<70847, 70848>>,
    <<70850, 70851>>, <<71090, 71093>>, <<71100, 71101>>, <<71103, 71104>>, <<71132, 71133>>,
    <<71219, 71226>>, <<71229, 71229>>, <<71231, 71232>>, <<71339, 71339>>, <<71341, 71341>>,
    <<71344, 71349>>, <<71351, 71351>>, <<71453, 71455>>, <<71458, 71461>>, <<71463, 71467>>,
    <<71727, 71735>>, <<71737, 71738>>, <<71995, 71996>>, <<71998, 71998>>, <<72003, 72003>>,
    <<72148, 72151>>, <<72154, 72155>>, <<72160, 72160>>, <<72193, 72202>>, <<72243, 72248>>,
    <<72251, 72254>>, <<72263, 72263>>, <<72273, 72278>>, <<72281, 72283>>, <<72330, 72342>>,
    <<72344, 72345>>, <<72752, 72758>>, <<72760, 72765>>, <<72767, 72767>>, <<72850, 72871>>,
    <<72874, 72880>>, <<72882, 72883>>, <<72885, 72886>>, <<73009, 73014>>, <<73018, 73018>>,
    <<73020, 73021>>, <<73023, 73029>>, <<73031, 73031>>, <<73104, 73105>>, <<73109, 73109>>,
    <<73111, 73111>>, <<73459, 73460>>, <<78896, 78904>>, <<92912, 92916>>, <<92976, 92982>>,
    <<92992, 92995>>, <<94031, 94031>>, <<94095, 94111>>, <<94176, 94177>>, <<94179, 94180>>,
    <<110576, 110579>>, <<110581, 110587>>, <<110589, 110590>>, <<113821, 113822>>,
    <<113824, 113827>>, <<118528, 118573>>, <<118576, 118598>>, <<119143, 119145>>,
    <<119155, 119170>>, <<119173, 119179>>, <<119210, 119213>>, <<119362, 119364>>,
    <<121344, 121398>>, <<121403, 121452>>, <<121461, 121461>>, <<121476, 121476>>,
    <<121499, 121503>>, <<121505, 121519>>, <<122880, 122886>>, <<122888, 122904>>,
    <<122907, 122913>>, <<122915, 122916>>, <<122918, 122922>>, <<123184, 123197>>,
    <<123566, 123566>>, <<123628, 123631>>, <<125136, 125142>>, <<125252, 125259>>,
    <<127995, 127999>>, <<917505, 917505>>, <<917536, 917631>>, <<917760, 917999>>>>
CasedRanges == <<
    <<65, 90>>, <<97, 122>>, <<170, 170>>, <<181, 181>>, <<186, 186>>, <<192, 214>>, <<216, 246>>,
    <<248, 442>>, <<444, 447>>, <<452, 659>>, <<661, 687>>, <<880, 883>>, <<886, 887>>,
    <<891, 893>>, <<895, 895>>, <<902, 902>>, <<904, 906>>, <<908, 908>>, <<910, 929>>,
    <<931, 1013>>, <<1015, 1153>>, <<1162, 1327>>, <<1329, 1366>>, <<1376, 1416>>, <<4256, 4293>>,
    <<4295, 4295>>, <<4301, 4301>>, <<4304, 4346>>, <<4349, 4351>>, <<5024, 5109>>, <<5112, 5117>>,
    <<7296, 7304>>, <<7312, 7354>>, <<7357, 7359>>, <<7424, 7467>>, <<7531, 7543>>, <<7545, 7578>>,
    <<7680, 7957>>, <<7960, 7965>>, <<7968, 8005>>, <<8008, 8013>>, <<8016, 8023>>, <<8025, 8025>>,
    <<8027, 8027>>, <<8029, 8029>>, <<8031, 8061>>, <<8064, 8116>>, <<8118, 8124>>, <<8126, 8126>>,
    <<8130, 8132>>, <<8134, 8140>>, <<8144, 8147>>, <<8150, 8155>>, <<8160, 8172>>, <<8178, 8180>>,
    <<8182, 8188>>, <<8450, 8450>>, <<8455, 8455>>, <<8458, 8467>>, <<8469, 8469>>, <<8473, 8477>>,
    <<8484, 8484>>, <<8486, 8486>>, <<8488, 8488>>, <<8490, 8493>>, <<8495, 8500>>, <<8505, 8505>>,
    <<8508, 8511>>, <<8517, 8521>>, <<8526, 8526>>, <<8544, 8575>>, <<8579, 8580>>, <<9398, 9449>>,
    <<11264, 11387>>, <<11390, 11492>>, <<11499, 11502>>, <<11506, 11507>>, <<11520, 11557>>,
    <<11559, 11559>>, <<11565, 11565>>, <<42560, 42605>>, <<42624, 42651>>, <<42786, 42863>>,
    <<42865, 42887>>, <<42891, 42894>>, <<42896, 42954>>, <<42960, 42961>>, <<42963, 42963>>,
    <<42965, 42969>>, <<42997, 42998>>, <<43002, 43002>>, <<43824, 43866>>, <<43872, 43880>>,
    <<43888, 43967>>, <<64256, 64262>>, <<64275, 64279>>, <<65313, 65338>>, <<65345, 65370>>,
    <<66560, 66639>>, <<66736, 66771>>, <<66776, 66811>>, <<66928, 66938>>, <<66940, 66954>>,
    <<66956, 66962>>, <<66964, 66965>>, <<66967, 66977>>, <<66979, 66993>>, <<66995, 67001>>,
    <<67003, 67004>>, <<68736, 68786>>, <<68800, 68850>>, <<71840, 71903>>, <<93760, 93823>>,
    <<119808, 119892>>, <<119894, 119964>>, <<119966, 119967>>, <<119970, 119970>>,
    <<119973, 119974>>, <<119977, 119980>>, <<119982, 119993>>, <<119995, 119995>>,
    <<119997, 120003>>, <<120005, 120069>>, <<120071, 120074>>, <<120077, 120084>>,
    <<120086, 120092>>, <<120094, 120121>>, <<120123, 120126>>, <<120128, 120132>>,
    <<120134, 120134>>, <<120138, 120144>>, <<120146, 120485>>, <<120488, 120512>>,
    <<120514, 120538>>, <<120540, 120570>>, <<120572, 120596>>, <<120598, 120628>>,
    <<120630, 120654>>, <<120656, 120686>>, <<120688, 120712>>, <<120714, 120744>>,
    <<120746, 120770>>, <<120772, 120779>>, <<122624, 122633>>, <<122635, 122654>>,
    <<125184, 125251>>, <<127280, 127305>>, <<127312, 127337>>, <<127344, 127369>>>>
IsIgnorable(c) == InRanges(IgnorableRanges, CodePoint(c))
IsCased(c) == InRanges(CasedRanges, CodePoint(c))
RECURSIVE CasedBefore(_, _)
CasedBefore(s, j) ==
    IF j = 0 THEN FALSE
    ELSE IF IsIgnorable(s[j]) THEN CasedBefore(s, j - 1)
    ELSE IsCased(s[j])
RECURSIVE CasedAfter(_, _)
CasedAfter(s, j) ==
    IF j > Len(s) THEN FALSE
    ELSE IF IsIgnorable(s[j]) THEN CasedAfter(s, j + 1)
    ELSE IsCased(s[j])
LowerAt(s, i) ==
    IF s[i] = "U+03A3"
    THEN (IF CasedBefore(s, i - 1) /\ ~CasedAfter(s, i + 1) THEN <<"U+03C2">> ELSE <<"U+03C3">>)
    ELSE LowerChar(s[i])
\* str.upper(), str.lower()
RECURSIVE Upper(_)
Upper(s) == IF s = <<>> THEN <<>> ELSE UpperChar(Head(s)) \o Upper(Tail(s))
RECURSIVE LowerFrom(_, _)
LowerFrom(s, i) == IF i > Len(s) THEN <<>> ELSE LowerAt(s, i) \o LowerFrom(s, i + 1)
Lower(s) == LowerFrom(s, 1)

RECURSIVE LStrip(_)
LStrip(s) == IF s # <<>> /\ IsSpace(Head(s)) THEN LStrip(Tail(s)) ELSE s
RECURSIVE RStrip(_)
RStrip(s) == IF s # <<>> /\ IsSpace(s[Len(s)]) THEN RStrip(SubSeq(s, 1, Len(s) - 1)) ELSE s
\* str.strip()
Strip(s) == RStrip(LStrip(s))

\* a pandas missing value, and what astype(str) makes of it
NaN == <<"NaN">>
\* Python's None, which the python engine of read_csv leaves in the cells a
\* short row lacks: pandas counts it as a missing value, and str(None) is
\* "None"
PyNone == <<"None">>
IsNull(v) == v = NaN \/ v = PyNone
AsStr(v) == IF v = NaN THEN <<"n","a","n">> ELSE IF v = PyNone THEN <<"N","o","n","e">> ELSE v

(***************************************************************************)
(* The code grammars, as re.fullmatch applies them.                        *)
(***************************************************************************)
\* [0-9A-Z]
IsIcdChar(c) == IsAsciiDigit(c) \/ IsUpper(c)
\* ^[A-TV-Z][0-9][0-9A-Z](?:\.[0-9A-Z]{1,4})?$
FullMatchIcd(s) ==
    /\ Len(s) \in {3} \cup (5..8)
    /\ IsUpper(s[1]) /\ s[1] # "U"
    /\ IsAsciiDigit(s[2])
    /\ IsIcdChar(s[3])
    /\ Len(s) > 3 => /\ s[4] = "."
                     /\ \A i \in 5..Len(s) : IsIcdChar(s[i])
\* ^[A-V]\d{4}$
FullMatchHcpcs(s) ==
    /\ Len(s) = 5
    /\ s[1] \in {UpperSeq[i] : i \in 1..22}
    /\ \A i \in 2..5 : IsDigit(s[i])
\* ^\d{6,18}$
FullMatchSnomed(s) ==
    /\ Len(s) \in 6..18
    /\ \A i \in 1..Len(s) : IsDigit(s[i])
\* ^\d{10}$
FullMatchTen(s) ==
    /\ Len(s) = 10
    /\ \A i \in 1..10 : IsDigit(s[i])

\* the pattern texts handed to validate_code_format
icd_pattern == "^[A-TV-Z][0-9][0-9A-Z](?:\\.[0-9A-Z]{1,4})?$"
snomed_pattern == "^\\d{6,18}$"
\* str.fullmatch(pattern) on one string
fullmatch(pattern, s) ==
    CASE pattern = icd_pattern -> FullMatchIcd(s)
      [] pattern = snomed_pattern -> FullMatchSnomed(s)
\* utils.validate_code_format, one element of the mask: astype(str), then fullmatch
validate_code_format(v, pattern) == fullmatch(pattern, AsStr(v))

(***************************************************************************)
(* is_valid_npi, the copy of npi_processor.py.                             *)
(***************************************************************************)
NpiPrefix == <<"8","0","8","4","0">>

\* re.sub(r"\D", "", s)
DigitsOf(s) == SelectSeq(s, IsDigit)

\* the loop over reversed(base): i runs from Len(base) down to 1, dbl toggles
RECURSIVE LuhnLoop(_, _, _, _)
LuhnLoop(base, i, total, dbl) ==
    IF i = 0 THEN total
    ELSE LET d0 == DigitVal(base[i])
             d1 == IF dbl THEN 2 * d0 ELSE d0
             d  == IF dbl /\ d1 > 9 THEN d1 - 9 ELSE d1
         IN  LuhnLoop(base, i - 1, total + d, ~dbl)

is_valid_npi(npi) ==
    LET s == DigitsOf(npi)
    IN  IF Len(s) # 10 THEN FALSE
        ELSE LET base  == NpiPrefix \o SubSeq(s, 1, 9)
                 total == LuhnLoop(base, Len(base), 0, TRUE)
                 check == (10 - (total % 10)) % 10
             IN  check = DigitVal(s[10])

(***************************************************************************)
(* is_valid_npi, the copy of rxnorm_processor.py.                          *)
(***************************************************************************)
RECURSIVE rx_LuhnLoop(_, _, _, _)
rx_LuhnLoop(base, i, total, dbl) ==
    IF i = 0 THEN total
    ELSE LET d0 == DigitVal(base[i])
             d1 == IF dbl THEN 2 * d0 ELSE d0
             d  == IF dbl /\ d1 > 9 THEN d1 - 9 ELSE d1
         IN  rx_LuhnLoop(base, i - 1, total + d, ~dbl)

rx_is_valid_npi(npi) ==
    LET s == DigitsOf(npi)
    IN  IF Len(s) # 10 THEN FALSE
        ELSE LET base  == NpiPrefix \o SubSeq(s, 1, 9)
                 total == rx_LuhnLoop(base, Len(base), 0, TRUE)
                 check == (10 - (total % 10)) % 10
             IN  check = DigitVal(s[10])

(***************************************************************************)
(* The specification of is_valid_npi alone: a candidate is drawn, and the  *)
(* two copies are applied to it.                                           *)
(***************************************************************************)
NoErr == "none"
NotCalled == [called |-> FALSE, npi |-> FALSE, rxnorm |-> FALSE]
NoInput == [kind |-> "none"]

\* the candidates: texts of a digit one, a digit six and a hyphen, the six
\* written either as "6" or as U+0666 ARABIC-INDIC DIGIT SIX
NpiAlphabets == {{"1", "6", "-"}, {"1", "U+0666", "-"}}
NpiCandidates == UNION {[1..n -> A] : n \in 0..MaxNpiLen, A \in NpiAlphabets}

Idle ==
    /\ script = "none" /\ input = NoInput /\ clock = 0 /\ pc = "npi"
    /\ raw = <<>> /\ out = <<>> /\ files = <<>> /\ err = NoErr /\ stamp = <<>>

NpiInit ==
    /\ Idle
    /\ npi_arg \in NpiCandidates
    /\ npi_ret = NotCalled

NpiCall ==
    /\ pc = "npi"
    /\ npi_ret = NotCalled
    /\ npi_ret' = [called |-> TRUE, npi |-> is_valid_npi(npi_arg),
                   rxnorm |-> rx_is_valid_npi(npi_arg)]
    /\ UNCHANGED <<script, input, clock, pc, raw, out, files, err, stamp, npi_arg>>

NpiNext == NpiCall

SpecNpi == NpiInit /\ [][NpiNext]_vars

\* The contract of C4, stated by position: the 14-digit base, each digit at an
\* even distance from the rightmost doubled (minus 9 when above 9).
RECURSIVE SumTo(_, _)
SumTo(f, n) == IF n = 0 THEN 0 ELSE f[n] + SumTo(f, n - 1)
LuhnCheckDigit(nine) ==
    LET b == NpiPrefix \o nine
        w == [i \in 1..14 |->
                LET v == DigitVal(b[i])
                IN  IF (14 - i) % 2 = 0
                    THEN (IF 2 * v > 9 THEN 2 * v - 9 ELSE 2 * v)
                    ELSE v]
    IN  (10 - (SumTo(w, 14) % 10)) % 10
\* the digits of a National Provider Identifier are the ten characters 0 to 9
NpiDigits(c) == SelectSeq(c, IsAsciiDigit)
NpiContract(c) ==
    /\ Len(NpiDigits(c)) = 10
    /\ LuhnCheckDigit(SubSeq(NpiDigits(c), 1, 9)) = DigitVal(NpiDigits(c)[10])
\* the same contract with every decimal digit of Unicode taken as a digit
AnyScriptContract(c) ==
    /\ Len(DigitsOf(c)) = 10
    /\ LuhnCheckDigit(SubSeq(DigitsOf(c), 1, 9)) = DigitVal(DigitsOf(c)[10])

\* C4: each copy of is_valid_npi returns a boolean (it raises nothing), and
\* returns true exactly when 10 digits remain after removing the non-digits
\* and the Luhn check digit over "80840" + the first 9 equals the 10th.
C4_NpiIffLuhn ==
    npi_ret.called =>
        /\ npi_ret.npi \in BOOLEAN /\ npi_ret.rxnorm \in BOOLEAN
        /\ npi_ret.npi = NpiContract(npi_arg)
        /\ npi_ret.rxnorm = NpiContract(npi_arg)

\* C4, on the candidates written in ASCII alone: the two copies return what
\* the contract says
C4_IffOnAscii ==
    (npi_ret.called /\ \A i \in 1..Len(npi_arg) : ~IsToken(npi_arg[i])) =>
        /\ npi_ret.npi = NpiContract(npi_arg)
        /\ npi_ret.rxnorm = NpiContract(npi_arg)
\* C4, with the digits of every script counted as digits: the two copies
\* return what the contract says, on every candidate
C4_IffAnyScript ==
    npi_ret.called =>
        /\ npi_ret.npi = AnyScriptContract(npi_arg)
        /\ npi_ret.rxnorm = AnyScriptContract(npi_arg)
\* C4: a candidate that holds fewer than ten of the digits 0 to 9 is accepted
C4_ForeignDigitsAccepted ==
    /\ npi_ret.called
    /\ npi_ret.npi /\ npi_ret.rxnorm
    /\ Len(NpiDigits(npi_arg)) < 10

(***************************************************************************)
(* DataFrames.  A dataset is [cols, rows]: the column names in order, and  *)
(* each row a tuple of cells aligned with cols.                            *)
(***************************************************************************)
S_code == <<"c","o","d","e">>
S_description == <<"d","e","s","c","r","i","p","t","i","o","n">>
S_last_updated == <<"l","a","s","t","_","u","p","d","a","t","e","d">>
S_empty == <<>>

DF(cols, rows) == [cols |-> cols, rows |-> rows]
NoData == DF(<<>>, <<>>)

\* c in df.columns
HasCol(cols, name) == \E j \in 1..Len(cols) : cols[j] = name
\* df[name] selects by label: the positions of every column of that name, in order
ColIdx(cols, name) == SelectSeq([j \in 1..Len(cols) |-> j], LAMBDA j : cols[j] = name)
\* df[name] is a Series (with .str and .astype on its values) only when one
\* column carries the label; with several it is a DataFrame
IsSeries(cols, name) == Len(ColIdx(cols, name)) = 1
\* df.columns.str.strip()
StripCols(cols) == [j \in 1..Len(cols) |-> Strip(cols[j])]

\* the subsequence of s at the indices in keep, in order
RECURSIVE PickFrom(_, _, _)
PickFrom(s, i, keep) ==
    IF i > Len(s) THEN <<>>
    ELSE (IF i \in keep THEN <<s[i]>> ELSE <<>>) \o PickFrom(s, i + 1, keep)

\* df.drop_duplicates(col): a row stays when no earlier row has its value in column k
drop_duplicates(rows, k) ==
    PickFrom(rows, 1, {i \in 1..Len(rows) : \A j \in 1..(i - 1) : rows[j][k] # rows[i][k]})

\* df[col] = value: the cell of every column of that name replaced in every
\* row (or a new last column when the name is new)
SetCell(row, ks, v) ==
    IF ks = <<>> THEN Append(row, v)
    ELSE [j \in 1..Len(row) |-> IF \E n \in 1..Len(ks) : ks[n] = j THEN v ELSE row[j]]
AssignColumn(df, name, v) ==
    DF(IF HasCol(df.cols, name) THEN df.cols ELSE Append(df.cols, name),
       [i \in 1..Len(df.rows) |-> SetCell(df.rows[i], ColIdx(df.cols, name), v)])

(***************************************************************************)
(* The clock and utils.now_utc_iso.                                        *)
(***************************************************************************)
\* the run starts at 2025-09-12T14:30:59Z; clock counts the seconds of that day
ClockStart == 52259
ClockDate == <<"2","0","2","5","-","0","9","-","1","2">>

\* %H, %M, %S: two digits, zero padded
Fmt2(n) == <<DigitSeq[(n \div 10) + 1], DigitSeq[(n % 10) + 1]>>

\* datetime.now(timezone.utc).strftime("%Y-%m-%dT%H:%M:%SZ")
now_utc_iso(t) ==
    ClockDate \o <<"T">> \o Fmt2(t \div 3600) \o <<":">> \o Fmt2((t % 3600) \div 60)
              \o <<":">> \o Fmt2(t % 60) \o <<"Z">>

(***************************************************************************)
(* utils.save_to_formats: the write of the standard columns to path.csv.   *)
(***************************************************************************)
StdCols == <<S_code, S_description, S_last_updated>>

\* the positions df[names] selects: for each name in turn, every column of it
RECURSIVE Selected(_, _)
Selected(cols, names) ==
    IF names = <<>> THEN <<>> ELSE ColIdx(cols, Head(names)) \o Selected(cols, Tail(names))
\* df[names] for the names df has (a name that labels two columns brings both)
Project(df, names) ==
    LET at == Selected(df.cols, names)
    IN  DF([j \in 1..Len(at) |-> df.cols[at[j]]],
           [i \in 1..Len(df.rows) |-> [j \in 1..Len(at) |-> df.rows[i][at[j]]]])

\* df.to_csv(path, index=index): the labels of the rows are written with index
WriteCsv(path, df, index) ==
    [path |-> path, index |-> index, data |-> IF index THEN df ELSE DF(df.cols, df.rows)]

save_to_formats(df, base) == WriteCsv([base |-> base, suffix |-> ".csv"], Project(df, StdCols), FALSE)

(***************************************************************************)
(* hcpcs_processor.py                                                      *)
(***************************************************************************)
HcpcsLiteral == <<"2","0","2","5","-","0","9","-","0","5">>

\* re.match(r"^\s*([A-V]\d{4})\s+(.*)$", line): the code, and the text after
\* the white space that follows it
HcpcsMatch(line) ==
    LET p == LStrip(line)
    IN  IF Len(p) >= 6 /\ FullMatchHcpcs(SubSeq(p, 1, 5)) /\ IsSpace(p[6])
        THEN [ok |-> TRUE, code |-> SubSeq(p, 1, 5), rest |-> LStrip(SubSeq(p, 6, Len(p)))]
        ELSE [ok |-> FALSE, code |-> <<>>, rest |-> <<>>]

\* re.split(r"\s{2,}|\t", x)[0]: x up to the first run of two white-space
\* characters or the first tab
RECURSIVE FirstGap(_, _)
FirstGap(x, i) ==
    IF i > Len(x) THEN i
    ELSE IF x[i] = "\t" \/ (IsSpace(x[i]) /\ i < Len(x) /\ IsSpace(x[i + 1])) THEN i
    ELSE FirstGap(x, i + 1)
FirstToken(x) == SubSeq(x, 1, FirstGap(x, 1) - 1)

\* the rows the loop over the lines appends
RECURSIVE HcpcsRows(_)
HcpcsRows(lines) ==
    IF lines = <<>> THEN <<>>
    ELSE LET m    == HcpcsMatch(Head(lines))
             desc == IF Strip(m.rest) # <<>> THEN FirstToken(Strip(m.rest)) ELSE <<>>
         IN  (IF m.ok /\ desc # <<>> THEN <<(<<m.code, desc>>)>> ELSE <<>>)
             \o HcpcsRows(Tail(lines))

\* lines 28-30: the pattern mask, the strip of description and the drop of the
\* empty descriptions
HcpcsQualifying(df) ==
    LET r1 == SelectSeq(df.rows, LAMBDA r : FullMatchHcpcs(r[1]))
        r2 == [i \in 1..Len(r1) |-> <<r1[i][1], Strip(AsStr(r1[i][2]))>>]
    IN  SelectSeq(r2, LAMBDA r : r[2] # <<>>)
\* line 30: the drop of the duplicates
HcpcsValidate(df) == DF(df.cols, drop_duplicates(HcpcsQualifying(df), 1))

HcpcsLoad ==
    /\ script = "hcpcs" /\ pc = "start"
    /\ IF ~input.exists
       THEN /\ pc' = "failed" /\ err' = "FileNotFoundError"
            /\ UNCHANGED raw
       ELSE /\ pc' = "loaded"
            /\ raw' = DF(<<S_code, S_description>>, HcpcsRows(input.lines))
            /\ UNCHANGED err
    /\ UNCHANGED <<script, input, clock, out, files, stamp, npi_arg, npi_ret>>

HcpcsClean ==
    /\ script = "hcpcs" /\ pc = "loaded"
    /\ LET now == now_utc_iso(clock)
       IN  /\ out' = AssignColumn(AssignColumn(HcpcsValidate(raw), S_last_updated, HcpcsLiteral),
                                  S_last_updated, now)
           /\ stamp' = Append(stamp, now)
    /\ pc' = "cleaned"
    /\ UNCHANGED <<script, input, clock, raw, files, err, npi_arg, npi_ret>>

HcpcsSave ==
    /\ script = "hcpcs" /\ pc = "cleaned"
    /\ files' = Append(files, save_to_formats(out, "output/csv/hcpcs_latest"))
    /\ pc' = "saved"
    /\ UNCHANGED <<script, input, clock, raw, out, err, stamp, npi_arg, npi_ret>>

\* the input files drawn for the HCPCS script
HcpcsLinePool ==
    { <<"A","0","0","2","1"," ","A","m","b","u","l","a","n","c","e">>,
      <<"A","0","0","2","1"," "," ","O","t","h","e","r">>,
      <<" ","V","2","0","2","0"," ","F","r","a","m","e","s"," "," ","x">>,
      <<"W","1","2","3","4"," ","B","a","d">>,
      <<"B","4","0","3","4">>,
      <<"J","0","1","2","0"," ","a","b","\t","c","d">> }

SeqsUpTo(S, n) == UNION {[1..k -> S] : k \in 0..n}

HcpcsInputs ==
    {[kind |-> "lines", exists |-> FALSE, lines |-> <<>>]}
    \cup {[kind |-> "lines", exists |-> TRUE, lines |-> ls] : ls \in SeqsUpTo(HcpcsLinePool, MaxRows)}

(***************************************************************************)
(* pandas.read_csv with a header row, as the scripts call it.  A CSV input *)
(* is [exists, header, rows]: the header's names and the rows' fields as   *)
(* written in the file.                                                    *)
(***************************************************************************)
\* the field texts read_csv turns into a missing value (na_filter on)
NaStrings ==
    { <<>>,
      <<"#","N","/","A">>, <<"#","N","/","A"," ","N","/","A">>, <<"#","N","A">>, <<"-","1",".","#","I","N","D">>, <<"-","1",".","#","Q","N","A","N">>, <<"-","N","a","N">>, <<"-","n","a","n">>,
      <<"1",".","#","I","N","D">>, <<"1",".","#","Q","N","A","N">>, <<"<","N","A",">">>, <<"N","/","A">>, <<"N","A">>, <<"N","U","L","L">>, <<"N","a","N">>, <<"N","o","n","e">>,
      <<"n","/","a">>, <<"n","a","n">>, <<"n","u","l","l">> }

ReadField(text, na_filter) == IF na_filter /\ text \in NaStrings THEN NaN ELSE text

\* the options of read_csv the scripts use, at their defaults: the C engine,
\* na_filter on, every column, every row
ReadDefaults == [engine |-> "c", na_filter |-> TRUE, usecols |-> <<>>, nrows |-> -1]
Raised(e) == [err |-> e, df |-> NoData]

\* skip_blank_lines: a record of no field, or of one blank field, is no record
\* (blank is white space for the python engine, spaces and tabs for the C engine)
BlankRecord(f, engine) ==
    \/ f = <<>>
    \/ /\ Len(f) = 1
       /\ IF engine = "python" THEN Strip(f[1]) = <<>>
          ELSE \A k \in 1..Len(f[1]) : f[1][k] \in {" ", "\t"}

\* str(i)
RECURSIVE Decimal(_)
Decimal(n) ==
    IF n < 10 THEN <<DigitSeq[n + 1]>> ELSE Decimal(n \div 10) \o <<DigitSeq[(n % 10) + 1]>>
\* counts.get(col, 0) and counts[col] = n, counts a function on the names seen
CountOf(counts, col) == IF col \in DOMAIN counts THEN counts[col] ELSE 0
SetCount(counts, col, n) == [x \in (DOMAIN counts) \cup {col} |-> IF x = col THEN n ELSE counts[x]]
\* the while loop of the header's duplicate names: old is the name as written,
\* cur its count, this the names of the header as they stand. The name tried
\* is old.cur; one the header holds is passed over, one handed out before is
\* counted on from its own count
RECURSIVE DedupName(_, _, _, _)
DedupName(old, cur, this, counts) ==
    LET next == IF (old \o <<".">> \o Decimal(cur)) \in Range(this) THEN cur + 1
                ELSE CountOf(SetCount(counts, old, cur + 1), old \o <<".">> \o Decimal(cur))
    IN  IF next > 0 THEN DedupName(old, next, this, SetCount(counts, old, cur + 1))
        ELSE [col |-> old \o <<".">> \o Decimal(cur), counts |-> SetCount(counts, old, cur + 1)]
\* the loop over col_loop_order: the name at position Head(order) is kept when
\* it was not handed out before, else renamed; then it is counted
RECURSIVE DedupNames(_, _, _)
DedupNames(this, order, counts) ==
    IF order = <<>> THEN this
    ELSE IF CountOf(counts, this[Head(order)]) = 0
    THEN DedupNames(this, Tail(order), SetCount(counts, this[Head(order)], 1))
    ELSE DedupNames([this EXCEPT ![Head(order)] =
                        DedupName(this[Head(order)], CountOf(counts, this[Head(order)]), this, counts).col],
                    Tail(order),
                    SetCount(DedupName(this[Head(order)], CountOf(counts, this[Head(order)]), this, counts).counts,
                             DedupName(this[Head(order)], CountOf(counts, this[Head(order)]), this, counts).col, 1))
\* the column names of a header record: an empty field at position i (from 0)
\* is named "Unnamed: i"; then the repeated names are told apart, the names
\* the file gives before the ones made up for its empty fields
HeaderNames(h) ==
    DedupNames([j \in 1..Len(h) |->
                   IF h[j] = <<>> THEN <<"U","n","n","a","m","e","d",":"," ">> \o Decimal(j - 1)
                   ELSE h[j]],
               SelectSeq([j \in 1..Len(h) |-> j], LAMBDA j : h[j] # <<>>)
                   \o SelectSeq([j \in 1..Len(h) |-> j], LAMBDA j : h[j] = <<>>),
               <<>>)

\* the labels of the rows under the C engine. A label is [n, levels]: the
\* integer n with no level, or n = -1 with the value of each level. Without
\* leading fields the rows are numbered from 0; one leading field per row is
\* the label, several make a tuple. Under dtype=str a leading field is read as
\* any other field is: a text, or a missing value when na_filter is on
IntLabel(n) == [n |-> n, levels |-> <<>>]
RowLabels(rows, extra, na_filter) ==
    IF extra = 0 THEN [i \in 1..Len(rows) |-> IntLabel(i - 1)]
    ELSE [i \in 1..Len(rows) |->
             [n |-> -1,
              levels |-> [k \in 1..extra |->
                            IF k <= Len(rows[i]) THEN ReadField(rows[i][k], na_filter)
                            ELSE (IF na_filter THEN NaN ELSE <<>>)]]]

\* the cell of a field a short row lacks: the C engine reads an empty field
\* there (a missing value when na_filter is on), the python engine leaves None
MissingCell(opts) ==
    IF opts.engine = "python" THEN PyNone ELSE IF opts.na_filter THEN NaN ELSE <<>>
\* the cells of the data rows: the first extra fields of a row are its label,
\* the next ones its cells, the cells a short row lacks are missing, and with
\* usecols only the columns named there are kept, in file order
ReadCells(names, rows, extra, opts) ==
    LET at == SelectSeq([j \in 1..Len(names) |-> j],
                        LAMBDA j : opts.usecols = <<>> \/ HasCol(opts.usecols, names[j]))
    IN  [cols |-> [j \in 1..Len(at) |-> names[at[j]]],
         rows |-> [i \in 1..Len(rows) |->
                     [j \in 1..Len(at) |->
                         IF at[j] + extra <= Len(rows[i])
                         THEN ReadField(rows[i][at[j] + extra], opts.na_filter)
                         ELSE MissingCell(opts)]]]
\* the frame of the data rows. The C engine labels the rows as RowLabels says.
\* The python engine infers the type of the labels it finds (numbers, booleans,
\* texts); the one script that reads with it, icd10cm_processor.py, selects
\* columns by name and writes without the labels (index=False), and its frame
\* is kept without them
ReadFrame(names, rows, extra, opts) ==
    IF opts.engine = "python"
    THEN DF(ReadCells(names, rows, extra, opts).cols, ReadCells(names, rows, extra, opts).rows)
    ELSE [cols  |-> ReadCells(names, rows, extra, opts).cols,
          rows  |-> ReadCells(names, rows, extra, opts).rows,
          index |-> RowLabels(rows, extra, opts.na_filter)]

\* the fields the first data row has beyond the header lead every row as its
\* label (not when usecols names as many columns as the header has)
LeadingCols(names, rows, opts) ==
    IF rows # <<>> /\ Len(rows[1]) > Len(names) /\ Cardinality(Range(opts.usecols)) # Len(names)
    THEN Len(rows[1]) - Len(names) ELSE 0
\* the python engine, Case 0 of _get_index_name: when the second data row has
\* as many fields as the first data row and the header together, the first
\* data row holds the names of the labels and is no row of data
NamesLabels(names, rows, opts) ==
    /\ opts.engine = "python"
    /\ Len(rows) >= 2
    /\ Len(rows[2]) = Len(rows[1]) + Len(names)
\* a usecols name the header lacks is a ValueError; without usecols a row of
\* more fields than the header and the label is a ParserError; nrows bounds
\* the rows read
ReadRows(names, rows, extra, opts) ==
    LET upto == IF opts.nrows >= 0 /\ opts.nrows < Len(rows) THEN opts.nrows ELSE Len(rows)
    IN  IF \E k \in 1..Len(opts.usecols) : ~HasCol(names, opts.usecols[k])
        THEN Raised("ValueError")
        ELSE IF opts.usecols = <<>> /\ \E i \in 2..upto : Len(rows[i]) > Len(names) + extra
        THEN Raised("ParserError")
        ELSE [err |-> NoErr, df |-> ReadFrame(names, SubSeq(rows, 1, upto), extra, opts)]
ReadTable(names, rows, opts) ==
    IF NamesLabels(names, rows, opts)
    THEN ReadRows(names, Tail(rows), Len(rows[1]), opts)
    ELSE ReadRows(names, rows, LeadingCols(names, rows, opts), opts)
\* pd.read_csv(path, dtype=str, ...) on the records of the file: the first
\* record that is not blank is the header; no such record is an EmptyDataError
ReadKept(kept, opts) ==
    IF kept = <<>> THEN Raised("EmptyDataError")
    ELSE ReadTable(HeaderNames(kept[1]), Tail(kept), opts)
read_csv(records, opts) ==
    ReadKept(SelectSeq(records, LAMBDA f : ~BlankRecord(f, opts.engine)), opts)

\* the records of a CSV input: its header line, then its rows
Records(in) == <<in.header>> \o in.rows

\* a CSV input from a layout (the columns: name and field) and records
Csv(layout, recs) ==
    [kind |-> "csv", exists |-> TRUE,
     header |-> [j \in 1..Len(layout) |-> layout[j].name],
     rows |-> [i \in 1..Len(recs) |-> [j \in 1..Len(layout) |-> recs[i][layout[j].field]]]]
MissingCsv == [kind |-> "csv", exists |-> FALSE, header |-> <<>>, rows |-> <<>>]

\* series.fillna("")
FillNa(v) == IF IsNull(v) THEN <<>> ELSE v

(***************************************************************************)
(* snomed_processor.py                                                     *)
(***************************************************************************)
S_conceptid == <<"c","o","n","c","e","p","t","i","d">>
S_term == <<"t","e","r","m">>
S_active == <<"a","c","t","i","v","e">>
S_languagecode == <<"l","a","n","g","u","a","g","e","c","o","d","e">>
S_en == <<"e","n">>

\* lower_map.get(key): a later column of the same lower-cased name replaces an earlier
LowerMapGet(cols, key) ==
    LET hits == {j \in 1..Len(cols) : Lower(cols[j]) = key}
    IN  IF hits = {} THEN 0 ELSE CHOOSE j \in hits : \A k \in hits : k <= j
\* next((c for c in df.columns if c.lower() == key), None)
FirstLower(cols, key) ==
    LET hits == {j \in 1..Len(cols) : Lower(cols[j]) = key}
    IN  IF hits = {} THEN 0 ELSE CHOOSE j \in hits : \A k \in hits : j <= k

\* lines 16-17: the read (its error, if it raises) and the strip of the names
load_snomed_data(in) ==
    LET r == read_csv(Records(in), [ReadDefaults EXCEPT !.na_filter = FALSE])
    IN  IF r.err # NoErr THEN r ELSE [err |-> NoErr, df |-> [r.df EXCEPT !.cols = StripCols(@)]]

\* clean_snomed_data up to the mask of line 52; the caller has checked the columns
SnomedQualifying(df) ==
    LET concept == LowerMapGet(df.cols, S_conceptid)
        term    == LowerMapGet(df.cols, S_term)
        r1 == IF HasCol(df.cols, S_active)
              THEN SelectSeq(df.rows, LAMBDA r : r[ColIdx(df.cols, S_active)[1]] = <<"1">>)
              ELSE df.rows
        lang == FirstLower(df.cols, S_languagecode)
        r2 == IF lang # 0 THEN SelectSeq(r1, LAMBDA r : Lower(r[lang]) = S_en) ELSE r1
        r3 == [i \in 1..Len(r2) |-> <<Strip(AsStr(r2[i][concept])), Strip(AsStr(r2[i][term]))>>]
    IN  SelectSeq(r3, LAMBDA r : validate_code_format(r[1], snomed_pattern) /\ r[2] # <<>>)
\* line 52: the drop of the duplicates
SnomedRecords(df) == DF(<<S_code, S_description>>, drop_duplicates(SnomedQualifying(df), 1))

SnomedLoad ==
    /\ script = "snomed" /\ pc = "start"
    /\ IF ~input.exists
       THEN /\ pc' = "failed" /\ err' = "FileNotFoundError"
            /\ UNCHANGED raw
       ELSE IF load_snomed_data(input).err # NoErr
       THEN /\ pc' = "failed" /\ err' = load_snomed_data(input).err
            /\ UNCHANGED raw
       ELSE /\ pc' = "loaded"
            /\ raw' = load_snomed_data(input).df
            /\ UNCHANGED err
    /\ UNCHANGED <<script, input, clock, out, files, stamp, npi_arg, npi_ret>>

\* the exception clean_snomed_data ends with before line 51, or NoErr: the two
\* columns are needed (line 33); df["active"] of two columns is a frame whose
\* comparison cannot index df (line 37); a column label that two columns carry
\* selects a frame, which has no .str (lines 40, 47, 48)
SnomedError(df) ==
    IF LowerMapGet(df.cols, S_conceptid) = 0 \/ LowerMapGet(df.cols, S_term) = 0 THEN "KeyError"
    ELSE IF Len(ColIdx(df.cols, S_active)) > 1 THEN "ValueError"
    ELSE IF FirstLower(df.cols, S_languagecode) # 0
            /\ ~IsSeries(df.cols, df.cols[FirstLower(df.cols, S_languagecode)]) THEN "AttributeError"
    ELSE IF ~IsSeries(df.cols, df.cols[LowerMapGet(df.cols, S_conceptid)])
            \/ ~IsSeries(df.cols, df.cols[LowerMapGet(df.cols, S_term)]) THEN "AttributeError"
    ELSE NoErr

SnomedClean ==
    /\ script = "snomed" /\ pc = "loaded"
    /\ IF SnomedError(raw) # NoErr
       THEN /\ pc' = "failed" /\ err' = SnomedError(raw)
            /\ UNCHANGED <<out, stamp>>
       ELSE LET now == now_utc_iso(clock)
            IN  /\ out' = AssignColumn(SnomedRecords(raw), S_last_updated, now)
                /\ stamp' = Append(stamp, now)
                /\ pc' = "cleaned"
                /\ UNCHANGED err
    /\ UNCHANGED <<script, input, clock, raw, files, npi_arg, npi_ret>>

SnomedSave ==
    /\ script = "snomed" /\ pc = "cleaned"
    /\ files' = Append(files, save_to_formats(out, "output/csv/snomed_us_latest"))
    /\ pc' = "saved"
    /\ UNCHANGED <<script, input, clock, raw, out, err, stamp, npi_arg, npi_ret>>

\* the input files drawn for the SNOMED script
SnomedLayouts ==
    { <<[name |-> <<"c","o","n","c","e","p","t","I","d">>, field |-> "code"], [name |-> <<"t","e","r","m">>, field |-> "desc"]>>,
      <<[name |-> <<" ","T","e","r","m">>, field |-> "desc"], [name |-> <<"C","O","N","C","E","P","T","I","D"," ">>, field |-> "code"],
        [name |-> <<"a","c","t","i","v","e">>, field |-> "active"]>>,
      <<[name |-> <<"c","o","n","c","e","p","t","I","d">>, field |-> "code"], [name |-> <<"t","e","r","m">>, field |-> "desc"],
        [name |-> <<"A","c","t","i","v","e">>, field |-> "active"], [name |-> <<"l","a","n","g","u","a","g","e","C","o","d","e">>, field |-> "lang"]>>,
      <<[name |-> <<"i","d">>, field |-> "code"], [name |-> <<"t","e","r","m">>, field |-> "desc"]>> }
SnomedRowPool ==
    { [code |-> <<"1","2","3","4","5","6">>, desc |-> <<"F","l","u">>, active |-> <<"1">>, lang |-> <<"e","n">>],
      [code |-> <<"1","2","3","4","5","6">>, desc |-> <<"D","u","p">>, active |-> <<"1">>, lang |-> <<"E","N">>],
      [code |-> <<" ","1","2","3","4","5","6"," ">>, desc |-> <<" ","P","a","d"," ">>, active |-> <<"0">>, lang |-> <<"e","n">>],
      [code |-> <<"1","2","3","4","5">>, desc |-> <<"S","h","o","r","t">>, active |-> <<"1">>, lang |-> <<"e","n">>],
      [code |-> <<"7","6","5","4","3","2","1">>, desc |-> <<" ">>, active |-> <<"1">>, lang |-> <<"f","r">>],
      [code |-> <<"7","6","5","4","3","2","1">>, desc |-> <<"C","o","u","g","h">>, active |-> <<"1">>, lang |-> <<"f","r">>] }
\* files that exercise the reader and the selection by label: no line at all;
\* a later row longer than the header; a first row longer than the header, with
\* a blank line and a short row; names that are equal once stripped, or equal
\* as written; a code that ends with a no-break space
SnomedSpecial ==
    { [kind |-> "csv", exists |-> TRUE,
        header |-> <<>>,
        rows |-> <<>>],
      [kind |-> "csv", exists |-> TRUE,
        header |-> <<<<"c","o","n","c","e","p","t","I","d">>, <<"t","e","r","m">>>>,
        rows |-> <<<<<<"1","2","3","4","5","6">>, <<"F","l","u">>>>,
                  <<<<"7","6","5","4","3","2","1">>, <<"C","o","u","g","h">>, <<"m","o","r","e">>>>>>],
      [kind |-> "csv", exists |-> TRUE,
        header |-> <<<<"c","o","n","c","e","p","t","I","d">>, <<"t","e","r","m">>>>,
        rows |-> <<<<<<"x">>, <<"1","2","3","4","5","6">>, <<"F","l","u">>>>,
                  <<>>,
                  <<<<"y">>, <<"7","6","5","4","3","2","1">>, <<"C","o","u","g","h">>>>,
                  <<<<"z">>, <<"1","2","3","4","5","6">>>>>>],
      [kind |-> "csv", exists |-> TRUE,
        header |-> <<<<"c","o","n","c","e","p","t","I","d">>, <<"c","o","n","c","e","p","t","I","d"," ">>, <<"t","e","r","m">>>>,
        rows |-> <<<<<<"1","2","3","4","5","6">>, <<"7","6","5","4","3","2","1">>, <<"F","l","u">>>>>>],
      [kind |-> "csv", exists |-> TRUE,
        header |-> <<<<"c","o","n","c","e","p","t","I","d">>, <<"c","o","n","c","e","p","t","I","d">>, <<"t","e","r","m">>>>,
        rows |-> <<<<<<"1","2","3","4","5","6"," ">>, <<"7","6","5","4","3","2","1">>, <<"F","l","u">>>>>>],
      [kind |-> "csv", exists |-> TRUE,
        header |-> <<<<"c","o","n","c","e","p","t","I","d">>, <<"t","e","r","m">>, <<"t","e","r","m"," ">>>>,
        rows |-> <<<<<<"1","2","3","4","5","6">>, <<"F","l","u">>, <<"C","o","u","g","h">>>>>>],
      [kind |-> "csv", exists |-> TRUE,
        header |-> <<<<"c","o","n","c","e","p","t","I","d">>, <<"t","e","r","m">>, <<"a","c","t","i","v","e">>, <<" ","a","c","t","i","v","e">>>>,
        rows |-> <<<<<<"1","2","3","4","5","6">>, <<"F","l","u">>, <<"1">>, <<"1">>>>>>],
      [kind |-> "csv", exists |-> TRUE,
        header |-> <<<<"c","o","n","c","e","p","t","I","d">>, <<"t","e","r","m">>, <<"l","a","n","g","u","a","g","e","C","o","d","e">>, <<"l","a","n","g","u","a","g","e","C","o","d","e"," ">>>>,
        rows |-> <<<<<<"1","2","3","4","5","6">>, <<"F","l","u">>, <<"e","n">>, <<"e","n">>>>>>] }
SnomedInputs ==
    {MissingCsv} \cup SnomedSpecial \cup {Csv(l, rs) : l \in SnomedLayouts, rs \in SeqsUpTo(SnomedRowPool, MaxRows)}

(***************************************************************************)
(* loinc_processor.py                                                      *)
(***************************************************************************)
S_LOINC_NUM == <<"L","O","I","N","C","_","N","U","M">>
S_LONG_COMMON_NAME == <<"L","O","N","G","_","C","O","M","M","O","N","_","N","A","M","E">>
LoincLiteral == <<"2","0","2","5","-","0","9","-","0","3">>

\* df.rename(columns={old: new})
Rename(cols, old, new) == [j \in 1..Len(cols) |-> IF cols[j] = old THEN new ELSE cols[j]]

\* lines 12-13: the read and the strip of the names
LoincLoad ==
    /\ script = "loinc" /\ pc = "start"
    /\ IF ~input.exists
       THEN /\ pc' = "failed" /\ err' = "FileNotFoundError"
            /\ UNCHANGED raw
       ELSE IF read_csv(Records(input), ReadDefaults).err # NoErr
       THEN /\ pc' = "failed" /\ err' = read_csv(Records(input), ReadDefaults).err
            /\ UNCHANGED raw
       ELSE /\ pc' = "loaded"
            /\ raw' = [read_csv(Records(input), ReadDefaults).df EXCEPT !.cols = StripCols(@)]
            /\ UNCHANGED err
    /\ UNCHANGED <<script, input, clock, out, files, stamp, npi_arg, npi_ret>>

\* lines 27-42: the two columns are looked up, selected (every column of the
\* two names, with the labels of the rows), stamped and renamed
LoincClean ==
    /\ script = "loinc" /\ pc = "loaded"
    /\ IF ~HasCol(raw.cols, S_LOINC_NUM) \/ ~HasCol(raw.cols, S_LONG_COMMON_NAME)
       THEN /\ pc' = "failed" /\ err' = "AttributeError"
            /\ UNCHANGED out
       ELSE LET small   == Project(raw, <<S_LOINC_NUM, S_LONG_COMMON_NAME>>)
                stamped == AssignColumn(small, S_last_updated, LoincLiteral)
            IN  /\ out' = [cols |-> Rename(Rename(stamped.cols, S_LOINC_NUM, S_code),
                                           S_LONG_COMMON_NAME, S_description),
                           rows |-> stamped.rows,
                           index |-> raw.index]
                /\ pc' = "cleaned"
                /\ UNCHANGED err
    /\ UNCHANGED <<script, input, clock, raw, files, stamp, npi_arg, npi_ret>>

\* lines 46-51: the two working copies, then the canonical file
LoincSave ==
    /\ script = "loinc" /\ pc = "cleaned"
    /\ files' = files \o
          << WriteCsv([base |-> "output/loinc_small", suffix |-> ".csv"], out, TRUE),
             WriteCsv([base |-> "output/loinc_small_noindex", suffix |-> ".csv"], out, FALSE),
             save_to_formats(out, "output/csv/loinc_latest") >>
    /\ pc' = "saved"
    /\ UNCHANGED <<script, input, clock, raw, out, err, stamp, npi_arg, npi_ret>>

\* the input files drawn for the LOINC script
LoincLayouts ==
    { <<[name |-> <<"L","O","I","N","C","_","N","U","M">>, field |-> "code"], [name |-> <<"L","O","N","G","_","C","O","M","M","O","N","_","N","A","M","E">>, field |-> "desc"]>>,
      <<[name |-> <<"S","T","A","T","U","S">>, field |-> "status"], [name |-> <<"L","O","N","G","_","C","O","M","M","O","N","_","N","A","M","E"," ">>, field |-> "desc"],
        [name |-> <<" ","L","O","I","N","C","_","N","U","M">>, field |-> "code"]>>,
      <<[name |-> <<"L","O","I","N","C","_","N","U","M">>, field |-> "code"], [name |-> <<"C","O","M","P","O","N","E","N","T">>, field |-> "desc"]>> }
LoincRowPool ==
    { [code |-> <<"1","-","8">>, desc |-> <<"A","c","y","c","l","o","v","i","r">>, status |-> <<"A","C","T","I","V","E">>],
      [code |-> <<"1","-","8">>, desc |-> <<"D","u","p">>, status |-> <<"A","C","T","I","V","E">>],
      [code |-> <<"2","-","6">>, desc |-> <<>>, status |-> <<"A","C","T","I","V","E">>],
      [code |-> <<>>, desc |-> <<" ","x"," ">>, status |-> <<>>] }
\* files that exercise the reader: no line at all; a later row longer than the
\* header; a first row longer than the header, with blank lines; two columns of
\* one name once the names are stripped; a repeated and an empty name
LoincSpecial ==
    { [kind |-> "csv", exists |-> TRUE,
       header |-> <<>>,
       rows |-> <<>>],
      [kind |-> "csv", exists |-> TRUE,
       header |-> <<<<"L","O","I","N","C","_","N","U","M">>, <<"L","O","N","G","_","C","O","M","M","O","N","_","N","A","M","E">>>>,
       rows |-> <<<<<<"1","-","8">>, <<"A","c","y","c","l","o","v","i","r">>>>,
                 <<<<"2","-","6">>, <<"O","t","h","e","r">>, <<"m","o","r","e">>>>>>],
      [kind |-> "csv", exists |-> TRUE,
       header |-> <<<<"L","O","I","N","C","_","N","U","M">>, <<"L","O","N","G","_","C","O","M","M","O","N","_","N","A","M","E">>>>,
       rows |-> <<<<<<"r","1">>, <<"1","-","8">>, <<"A","c","y","c","l","o","v","i","r">>>>,
                 <<>>,
                 <<<<"r","2">>, <<"2","-","6">>>>,
                 <<<<" ">>>>>>],
      [kind |-> "csv", exists |-> TRUE,
       header |-> <<<<"L","O","I","N","C","_","N","U","M">>, <<" ","L","O","I","N","C","_","N","U","M">>, <<"L","O","N","G","_","C","O","M","M","O","N","_","N","A","M","E">>>>,
       rows |-> <<<<<<"1","-","8">>, <<"9","-","9">>, <<"A","c","y","c","l","o","v","i","r">>>>,
                 <<<<"2","-","6">>, <<"2","-","6">>, <<"N","A">>>>>>],
      [kind |-> "csv", exists |-> TRUE,
       header |-> <<<<"L","O","I","N","C","_","N","U","M">>, <<"L","O","I","N","C","_","N","U","M">>, <<>>, <<"L","O","N","G","_","C","O","M","M","O","N","_","N","A","M","E">>>>,
       rows |-> <<<<<<"1","-","8">>, <<"9","-","9">>, <<"x">>, <<"A","c","y","c","l","o","v","i","r">>>>>>] }
LoincInputs ==
    {MissingCsv} \cup LoincSpecial \cup {Csv(l, rs) : l \in LoincLayouts, rs \in SeqsUpTo(LoincRowPool, MaxRows)}

(***************************************************************************)
(* Column scores: a mean is kept as the fraction num/den; with no rows it  *)
(* is 0/0 (pandas' NaN), which compares false with everything.             *)
(***************************************************************************)
Mean(num, den) == [num |-> num, den |-> den]
MeanZero == Mean(0, 1)
\* a >= b on floats: the comparison a scan would make with >= written for >
MeanGe(a, b) == a.den > 0 /\ b.den > 0 /\ a.num * b.den >= b.num * a.den
\* a > b on floats
MeanGt(a, b) == a.den > 0 /\ b.den > 0 /\ a.num * b.den > b.num * a.den

\* series.mean() of a boolean mask: the share of the rows where it is True
MatchRate(mask) ==
    Mean(Cardinality({i \in 1..Len(mask) : mask[i]}), Len(mask))

\* best, rate = None, 0.0; for c in df.columns: if score(c) > rate: best, rate = c, score(c)
\* (rates[j] is the score of column j; the position of best, 0 for None)
RECURSIVE ScanBest(_, _, _, _)
ScanBest(rates, j, best, rate) ==
    IF j > Len(rates) THEN best
    ELSE IF MeanGt(rates[j], rate) THEN ScanBest(rates, j + 1, j, rates[j])
    ELSE ScanBest(rates, j + 1, best, rate)

\* next((c for c in candidates if c in cols), None): <<>> for None
RECURSIVE FirstPresent(_, _)
FirstPresent(candidates, cols) ==
    IF candidates = <<>> THEN <<>>
    ELSE IF HasCol(cols, Head(candidates)) THEN Head(candidates)
    ELSE FirstPresent(Tail(candidates), cols)

(***************************************************************************)
(* npi_processor.py                                                        *)
(***************************************************************************)
NPI_CANDIDATES == << <<"N","P","I">>, <<"n","p","i">>, <<"N","p","i">> >>
ORG_COLS ==
    << <<"P","r","o","v","i","d","e","r"," ","O","r","g","a","n","i","z","a","t","i","o","n"," ","N","a","m","e"," ","(","L","e","g","a","l"," ","B","u","s","i","n","e","s","s"," ","N","a","m","e",")">>,
       <<"P","r","o","v","i","d","e","r"," ","O","r","g","a","n","i","z","a","t","i","o","n"," ","N","a","m","e">>,
       <<"p","r","o","v","i","d","e","r","_","o","r","g","a","n","i","z","a","t","i","o","n","_","n","a","m","e","_","l","e","g","a","l","_","b","u","s","i","n","e","s","s","_","n","a","m","e">>,
       <<"O","r","g"," ","N","a","m","e">> >>
NAME_COLS ==
    << <<"P","r","o","v","i","d","e","r"," ","N","a","m","e"," ","P","r","e","f","i","x"," ","T","e","x","t">>,
       <<"P","r","o","v","i","d","e","r"," ","F","i","r","s","t"," ","N","a","m","e">>,
       <<"P","r","o","v","i","d","e","r"," ","M","i","d","d","l","e"," ","N","a","m","e">>,
       <<"P","r","o","v","i","d","e","r"," ","L","a","s","t"," ","N","a","m","e"," ","(","L","e","g","a","l"," ","N","a","m","e",")">>,
       <<"P","r","o","v","i","d","e","r"," ","N","a","m","e"," ","S","u","f","f","i","x"," ","T","e","x","t">> >>
\* nrows of the sample _detect_columns scans
SampleRows == 5000

\* " ".join(parts)
RECURSIVE JoinSpace(_)
JoinSpace(parts) ==
    IF parts = <<>> THEN <<>>
    ELSE IF Len(parts) = 1 THEN parts[1]
    ELSE parts[1] \o <<" ">> \o JoinSpace(Tail(parts))

\* " ".join([s for s in (str(x).strip() for x in row) if s])
JoinName(cells) ==
    JoinSpace(SelectSeq([k \in 1..Len(cells) |-> Strip(AsStr(cells[k]))], LAMBDA s : s # <<>>))

\* the 10-digit heuristic on one cell: astype(str), strip, fullmatch
LooksTen(v) == FullMatchTen(Strip(AsStr(v)))
\* df[c].astype(str).str.strip().str.fullmatch(ten).mean(), for every column
TenRates(df) ==
    [j \in 1..Len(df.cols) |-> MatchRate([i \in 1..Len(df.rows) |-> LooksTen(df.rows[i][j])])]

\* the NPI column: a candidate name, else the scan (<<>> when neither finds one)
NpiFindColumn(df) ==
    LET named == FirstPresent(NPI_CANDIDATES, df.cols)
        best  == ScanBest(TenRates(df), 1, 0, MeanZero)
    IN  IF named # <<>> THEN named
        ELSE IF best # 0 THEN df.cols[best] ELSE <<>>
\* the scan reads df[c].astype(str).str of every column: a label that two
\* columns carry selects a frame, which has no .str
ScanRaises(cols) == \E j \in 1..Len(cols) : ~IsSeries(cols, cols[j])

\* lines 65-75: the columns to load, or the KeyError without an NPI column
DetectUse(cols, npi) ==
    IF npi = <<>> THEN [err |-> "KeyError", npi_col |-> <<>>, usecols |-> <<>>]
    ELSE [err |-> NoErr, npi_col |-> npi,
          usecols |-> <<npi>>
                      \o (IF FirstPresent(ORG_COLS, cols) # <<>> THEN <<FirstPresent(ORG_COLS, cols)>> ELSE <<>>)
                      \o SelectSeq(NAME_COLS, LAMBDA c : HasCol(cols, c))]
\* lines 52-63: without a candidate name the first SampleRows rows are read and scanned
DetectScan(cols, sample) ==
    IF sample.err # NoErr THEN [err |-> sample.err, npi_col |-> <<>>, usecols |-> <<>>]
    ELSE IF ScanRaises(StripCols(sample.df.cols))
    THEN [err |-> "AttributeError", npi_col |-> <<>>, usecols |-> <<>>]
    ELSE DetectUse(cols, NpiFindColumn([sample.df EXCEPT !.cols = StripCols(@)]))
\* lines 46-51: the stripped names of the header, and a candidate name among them
DetectNamed(in, header) ==
    IF header.err # NoErr THEN [err |-> header.err, npi_col |-> <<>>, usecols |-> <<>>]
    ELSE IF FirstPresent(NPI_CANDIDATES, StripCols(header.df.cols)) # <<>>
    THEN DetectUse(StripCols(header.df.cols), FirstPresent(NPI_CANDIDATES, StripCols(header.df.cols)))
    ELSE DetectScan(StripCols(header.df.cols),
                    read_csv(Records(in), [ReadDefaults EXCEPT !.nrows = SampleRows]))
\* _detect_columns
detect_columns(in) == DetectNamed(in, read_csv(Records(in), [ReadDefaults EXCEPT !.nrows = 0]))

\* load_npi_data, lines 83-85: the read of the columns in usecols (their names
\* are stripped names, which the file may not hold) and the strip of the names
load_npi_data(in) ==
    LET d == detect_columns(in)
        r == read_csv(Records(in), [ReadDefaults EXCEPT !.usecols = d.usecols])
    IN  IF d.err # NoErr THEN Raised(d.err)
        ELSE IF r.err # NoErr THEN r
        ELSE [err |-> NoErr, df |-> [r.df EXCEPT !.cols = StripCols(@)]]

\* the labels of the rows of a frame, 0, 1, ... when it carries none
RangeIndex(n) == [i \in 1..n |-> IntLabel(i - 1)]
IndexOf(df) == IF "index" \in DOMAIN df THEN df.index ELSE RangeIndex(Len(df.rows))
\* label l is one of index; the first place it has there
InIndex(index, l) == \E i \in 1..Len(index) : index[i] = l
HasDupLabels(index) == \E i, j \in 1..Len(index) : i < j /\ index[i] = index[j]
\* the kinds of label: an integer, a text, a missing value, a tuple
IsIntLabel(l) == l.levels = <<>>
IsNullLabel(l) == l.levels = <<NaN>>
IsTextLabel(l) == Len(l.levels) = 1 /\ l.levels # <<NaN>>
\* s < t for two texts: by code point, a prefix before the longer text
RECURSIVE TextLess(_, _)
TextLess(s, t) ==
    IF t = <<>> THEN FALSE
    ELSE IF s = <<>> THEN TRUE
    ELSE IF Head(s) = Head(t) THEN TextLess(Tail(s), Tail(t))
    ELSE CodePoint(Head(s)) < CodePoint(Head(t))
\* the order in which a sort of mixed labels puts them: the integers by value,
\* then the texts, then the missing values
LabelLess(l, m) ==
    IF IsIntLabel(l) THEN (IF IsIntLabel(m) THEN l.n < m.n ELSE TRUE)
    ELSE IF IsTextLabel(l) THEN (IF IsTextLabel(m) THEN TextLess(l.levels[1], m.levels[1]) ELSE IsNullLabel(m))
    ELSE FALSE
\* index.is_monotonic_increasing: labels of one kind, none missing, that never
\* descend (texts do not compare with integers or with a missing value)
Ascending(index) ==
    /\ (\A i \in 1..Len(index) : IsIntLabel(index[i])) \/ (\A i \in 1..Len(index) : IsTextLabel(index[i]))
    /\ \A i \in 1..(Len(index) - 1) : ~LabelLess(index[i + 1], index[i])
\* the sort of a sequence of labels (by insertion, which keeps equal labels in
\* their order)
RECURSIVE InsertLabel(_, _)
InsertLabel(sorted, l) ==
    IF sorted = <<>> THEN <<l>>
    ELSE IF LabelLess(l, Head(sorted)) THEN <<l>> \o sorted
    ELSE <<Head(sorted)>> \o InsertLabel(Tail(sorted), l)
RECURSIVE SortLabels(_)
SortLabels(index) ==
    IF index = <<>> THEN <<>>
    ELSE InsertLabel(SortLabels(SubSeq(index, 1, Len(index) - 1)), index[Len(index)])
\* a.union(b, sort=False): the labels of a, then those of b that a lacks
UnionUnsorted(a, b) == a \o SelectSeq(b, LAMBDA l : ~InIndex(a, l))
\* a.union(b), sort=None, for the indexes met here: a the labels of a file
\* and b the integers 0, 1, ... . An empty side gives the other. When both
\* sides ascend the two are merged, which for texts and integers fails to
\* compare them and falls back to the labels of a, then those of b; otherwise
\* the union is sorted: integers, then texts, then missing values. Labels of
\* a that are all missing are followed by the integers and stay there: no
\* integer is less than a missing value, and the sort moves nothing
UnionIndex(a, b) ==
    IF b = <<>> THEN a
    ELSE IF a = <<>> THEN b
    ELSE IF Ascending(a) /\ Ascending(b) /\ ~(HasDupLabels(a) /\ HasDupLabels(b))
    THEN (IF IsIntLabel(a[1]) = IsIntLabel(b[1]) THEN SortLabels(UnionUnsorted(a, b))
          ELSE UnionUnsorted(a, b))
    ELSE IF \A i \in 1..Len(a) : IsNullLabel(a[i]) THEN UnionUnsorted(a, b)
    ELSE SortLabels(UnionUnsorted(a, b))
\* series.reindex(target): the value at each label of target, missing where
\* the series has no such label
Reindex(index, values, target) ==
    [i \in 1..Len(target) |->
        IF InIndex(index, target[i])
        THEN values[CHOOSE k \in 1..Len(index) : index[k] = target[i]]
        ELSE NaN]
\* what pd.DataFrame({"code": ..., "description": ...}) raises when the labels
\* of the two Series differ: the union of a MultiIndex (a, the left operand)
\* with an index of integers is not implemented, and a Series with a repeated
\* label cannot be reindexed. With an index of objects (integers and tuples)
\* on the right the union of a MultiIndex is made and nothing is raised
AlignError(a, b) ==
    IF a = b THEN NoErr
    ELSE IF a # <<>> /\ Len(a[1].levels) > 1 /\ b # <<>>
            /\ \A i \in 1..Len(b) : IsIntLabel(b[i]) THEN "NotImplementedError"
    ELSE IF HasDupLabels(a) \/ HasDupLabels(b) THEN "ValueError"
    ELSE NoErr
\* the rows <<code, description>> of that frame: the two Series side by side
\* when their labels are the same, else one row per label of the united index u
AlignedOn(u, a, codes, b, descs) ==
    [i \in 1..Len(u) |-> <<Reindex(a, codes, u)[i], Reindex(b, descs, u)[i]>>]
Aligned(a, codes, b, descs) ==
    IF a = b THEN [i \in 1..Len(codes) |-> <<codes[i], descs[i]>>]
    ELSE AlignedOn(UnionIndex(a, b), a, codes, b, descs)

\* lines 108-120: the description Series, [index, values]. The organization
\* column as text; else the name parts present (every column of each name),
\* joined; else a new Series of "" labelled 0, 1, ...
NpiDescriptions(df) ==
    LET org == FirstPresent(ORG_COLS, df.cols)
        at  == Selected(df.cols, SelectSeq(NAME_COLS, LAMBDA c : HasCol(df.cols, c)))
    IN  IF org # <<>>
        THEN [index |-> IndexOf(df),
              values |-> [i \in 1..Len(df.rows) |-> AsStr(df.rows[i][ColIdx(df.cols, org)[1]])]]
        ELSE IF at # <<>>
        THEN [index |-> IndexOf(df),
              values |-> [i \in 1..Len(df.rows) |->
                            JoinName([k \in 1..Len(at) |-> FillNa(df.rows[i][at[k]])])]]
        ELSE [index |-> RangeIndex(Len(df.rows)),
              values |-> [i \in 1..Len(df.rows) |-> <<>>]]

\* the exception clean_npi_data ends with before line 128, or NoErr
NpiError(df) ==
    IF FirstPresent(NPI_CANDIDATES, df.cols) = <<>> /\ ScanRaises(df.cols) THEN "AttributeError"
    ELSE IF NpiFindColumn(df) = <<>> THEN "KeyError"
    ELSE IF ~IsSeries(df.cols, NpiFindColumn(df)) THEN "AttributeError"
    ELSE IF FirstPresent(ORG_COLS, df.cols) # <<>>
            /\ ~IsSeries(df.cols, FirstPresent(ORG_COLS, df.cols)) THEN "AttributeError"
    ELSE AlignError(IndexOf(df), NpiDescriptions(df).index)

\* lines 122-129: the frame of code and description, validated and emptied of
\* blank descriptions (a missing cell is not a valid code, and is not "")
NpiQualifying(df, npi_col) ==
    LET desc == NpiDescriptions(df)
        r1 == Aligned(IndexOf(df),
                      [i \in 1..Len(df.rows) |-> Strip(AsStr(df.rows[i][ColIdx(df.cols, npi_col)[1]]))],
                      desc.index, [i \in 1..Len(desc.values) |-> Strip(AsStr(desc.values[i]))])
        r2 == SelectSeq(r1, LAMBDA r : is_valid_npi(r[1]))
    IN  SelectSeq(r2, LAMBDA r : r[2] # <<>>)
\* line 130: the drop of the duplicates
NpiRecords(df, npi_col) ==
    DF(<<S_code, S_description>>, drop_duplicates(NpiQualifying(df, npi_col), 1))

NpiLoad ==
    /\ script = "npi" /\ pc = "start"
    /\ IF ~input.exists
       THEN /\ pc' = "failed" /\ err' = "FileNotFoundError"
            /\ UNCHANGED raw
       ELSE IF load_npi_data(input).err # NoErr
       THEN /\ pc' = "failed" /\ err' = load_npi_data(input).err
            /\ UNCHANGED raw
       ELSE /\ pc' = "loaded"
            /\ raw' = load_npi_data(input).df
            /\ UNCHANGED err
    /\ UNCHANGED <<script, input, clock, out, files, stamp, npi_arg, npi_ret>>

NpiClean ==
    /\ script = "npi" /\ pc = "loaded"
    /\ IF NpiError(raw) # NoErr
       THEN /\ pc' = "failed" /\ err' = NpiError(raw)
            /\ UNCHANGED <<out, stamp>>
       ELSE IF Len(raw.rows) = 0
       THEN \* out[out["code"].apply(is_valid_npi)] on a frame without rows: the
            \* mask is an empty object Series, pandas reads it as an empty list of
            \* column labels, and out["description"] on the result raises
            /\ pc' = "failed" /\ err' = "KeyError"
            /\ UNCHANGED <<out, stamp>>
       ELSE LET now == now_utc_iso(clock)
            IN  /\ out' = AssignColumn(NpiRecords(raw, NpiFindColumn(raw)), S_last_updated, now)
                /\ stamp' = Append(stamp, now)
                /\ pc' = "cleaned"
                /\ UNCHANGED err
    /\ UNCHANGED <<script, input, clock, raw, files, npi_arg, npi_ret>>

NpiSave ==
    /\ script = "npi" /\ pc = "cleaned"
    /\ files' = Append(files, save_to_formats(out, "output/csv/npi_latest"))
    /\ pc' = "saved"
    /\ UNCHANGED <<script, input, clock, raw, out, err, stamp, npi_arg, npi_ret>>

(***************************************************************************)
(* rxnorm_processor.py (the NPI variant)                                   *)
(***************************************************************************)
rx_NPI_CANDIDATES == << <<"N","P","I">>, <<"n","p","i">>, <<"N","p","i">> >>
rx_ORG_COLS ==
    << <<"P","r","o","v","i","d","e","r"," ","O","r","g","a","n","i","z","a","t","i","o","n"," ","N","a","m","e"," ","(","L","e","g","a","l"," ","B","u","s","i","n","e","s","s"," ","N","a","m","e",")">>,
       <<"P","r","o","v","i","d","e","r"," ","O","r","g","a","n","i","z","a","t","i","o","n"," ","N","a","m","e">>,
       <<"p","r","o","v","i","d","e","r","_","o","r","g","a","n","i","z","a","t","i","o","n","_","n","a","m","e","_","l","e","g","a","l","_","b","u","s","i","n","e","s","s","_","n","a","m","e">>,
       <<"O","r","g"," ","N","a","m","e">> >>
rx_NAME_COLS ==
    << <<"P","r","o","v","i","d","e","r"," ","N","a","m","e"," ","P","r","e","f","i","x"," ","T","e","x","t">>,
       <<"P","r","o","v","i","d","e","r"," ","F","i","r","s","t"," ","N","a","m","e">>,
       <<"P","r","o","v","i","d","e","r"," ","M","i","d","d","l","e"," ","N","a","m","e">>,
       <<"P","r","o","v","i","d","e","r"," ","L","a","s","t"," ","N","a","m","e"," ","(","L","e","g","a","l"," ","N","a","m","e",")">>,
       <<"P","r","o","v","i","d","e","r"," ","N","a","m","e"," ","S","u","f","f","i","x"," ","T","e","x","t">> >>

\* the cells of the name parts in one row of pd.concat(parts, axis=1): i is the
\* row of df under that label (0 for none), fresh says that the new Series of
\* "" have the label. A part is df[c].fillna("") for every column of a name
\* df has, else a new Series of ""; a part without the label gives a missing cell
RECURSIVE PartCells(_, _, _, _)
PartCells(df, names, i, fresh) ==
    IF names = <<>> THEN <<>>
    ELSE (IF HasCol(df.cols, Head(names))
          THEN [k \in 1..Len(ColIdx(df.cols, Head(names))) |->
                   IF i = 0 THEN NaN ELSE FillNa(df.rows[i][ColIdx(df.cols, Head(names))[k]])]
          ELSE <<(IF fresh THEN <<>> ELSE NaN)>>)
         \o PartCells(df, Tail(names), i, fresh)
\* the labels of the rows of pd.concat(parts, axis=1), which does not sort:
\* those of the parts when they agree, else the union in the order of the parts
PartsIndex(df) ==
    LET own   == IndexOf(df)
        fresh == RangeIndex(Len(df.rows))
        some  == \E k \in 1..Len(rx_NAME_COLS) : HasCol(df.cols, rx_NAME_COLS[k])
        every == \A k \in 1..Len(rx_NAME_COLS) : HasCol(df.cols, rx_NAME_COLS[k])
    IN  IF ~some THEN fresh
        ELSE IF every \/ own = fresh THEN own
        ELSE IF HasCol(df.cols, rx_NAME_COLS[1]) THEN UnionUnsorted(own, fresh)
        ELSE UnionUnsorted(fresh, own)
\* the parts carry two different sets of labels
PartsDiffer(df) ==
    /\ IndexOf(df) # RangeIndex(Len(df.rows))
    /\ \E k \in 1..Len(rx_NAME_COLS) : HasCol(df.cols, rx_NAME_COLS[k])
    /\ \E k \in 1..Len(rx_NAME_COLS) : ~HasCol(df.cols, rx_NAME_COLS[k])
\* a part that is a frame: a name part that two columns of the file carry
FramePart(df) ==
    \E k \in 1..Len(rx_NAME_COLS) : Len(ColIdx(df.cols, rx_NAME_COLS[k])) > 1
\* build_description, [err, index, values]: the first organization column
\* present as text, else the name parts joined row by row. Parts of different
\* labels are aligned first (line 53), on the union of their labels taken in
\* the order of the parts. The union is not implemented when its left operand
\* is a MultiIndex and the right one an index of integers, which is the case
\* when df has the first name of NAME_COLS; when the first part is a new
\* Series, its integers are cast to objects and the tuples of df are added
\* after them. A repeated label forbids the alignment: a repeated tuple fails
\* in the union with ValueError, the reindex of a Series raises ValueError,
\* and when a part is a frame its indexer raises InvalidIndexError
build_description(df) ==
    LET org == FirstPresent(rx_ORG_COLS, df.cols)
        own == IndexOf(df)
        u   == PartsIndex(df)
    IN  IF org # <<>>
        THEN [err |-> NoErr, index |-> own,
              values |-> [i \in 1..Len(df.rows) |-> AsStr(df.rows[i][ColIdx(df.cols, org)[1]])]]
        ELSE IF PartsDiffer(df) /\ Len(own[1].levels) > 1 /\ HasCol(df.cols, rx_NAME_COLS[1])
        THEN [err |-> "NotImplementedError", index |-> <<>>, values |-> <<>>]
        ELSE IF PartsDiffer(df) /\ HasDupLabels(own)
        THEN [err |-> IF FramePart(df) /\ Len(own[1].levels) = 1
                      THEN "InvalidIndexError" ELSE "ValueError",
              index |-> <<>>, values |-> <<>>]
        ELSE IF PartsDiffer(df)
        THEN [err |-> NoErr, index |-> u,
              values |-> [n \in 1..Len(u) |->
                            JoinName(PartCells(df, rx_NAME_COLS,
                                               IF InIndex(own, u[n])
                                               THEN CHOOSE i \in 1..Len(own) : own[i] = u[n] ELSE 0,
                                               InIndex(RangeIndex(Len(df.rows)), u[n])))]]
        ELSE [err |-> NoErr, index |-> u,
              values |-> [i \in 1..Len(df.rows) |-> JoinName(PartCells(df, rx_NAME_COLS, i, TRUE))]]

\* the description has the labels of the file and those of the new parts,
\* the code only those of the file, and their union (lines 81-84) is not the
\* one of UnionIndex. It is made of the labels of the first, then those the
\* second adds, and then sorted. For two indexes of the same class the sort
\* of texts and integers raises TypeError in some versions of pandas and in
\* the others warns and leaves the order; the union of a MultiIndex catches
\* the TypeError of tuples and integers itself and leaves the order
RxMixedLabels(df) == FirstPresent(rx_ORG_COLS, df.cols) = <<>> /\ PartsDiffer(df)
\* the sort has a text to compare with an integer (a missing value is set
\* aside by the sort and compared with nothing)
RxSortRaises(df) ==
    RxMixedLabels(df) /\ \E i \in 1..Len(IndexOf(df)) : IsTextLabel(IndexOf(df)[i])
\* the exception clean_npi_data ends with before line 87, or NoErr
RxError(df) ==
    IF FirstPresent(rx_NPI_CANDIDATES, df.cols) = <<>> THEN "KeyError"
    ELSE IF build_description(df).err # NoErr THEN build_description(df).err
    ELSE IF ~IsSeries(df.cols, FirstPresent(rx_NPI_CANDIDATES, df.cols)) THEN "AttributeError"
    ELSE IF FirstPresent(rx_ORG_COLS, df.cols) # <<>>
            /\ ~IsSeries(df.cols, FirstPresent(rx_ORG_COLS, df.cols)) THEN "AttributeError"
    ELSE AlignError(IndexOf(df), build_description(df).index)

\* lines 79-88
RxAligned(a, codes, b, descs, mixed) ==
    IF a = b THEN [i \in 1..Len(codes) |-> <<codes[i], descs[i]>>]
    ELSE IF mixed THEN AlignedOn(UnionUnsorted(a, b), a, codes, b, descs)
    ELSE AlignedOn(UnionIndex(a, b), a, codes, b, descs)
RxQualifying(df, npi_col) ==
    LET desc == build_description(df)
        r1 == RxAligned(IndexOf(df),
                        [i \in 1..Len(df.rows) |-> Strip(AsStr(df.rows[i][ColIdx(df.cols, npi_col)[1]]))],
                        desc.index, [i \in 1..Len(desc.values) |-> Strip(AsStr(desc.values[i]))],
                        RxMixedLabels(df))
        r2 == SelectSeq(r1, LAMBDA r : rx_is_valid_npi(r[1]))
    IN  SelectSeq(r2, LAMBDA r : r[2] # <<>>)
\* line 89: the drop of the duplicates
RxRecords(df, npi_col) ==
    DF(<<S_code, S_description>>, drop_duplicates(RxQualifying(df, npi_col), 1))

\* lines 65-66: the read and the strip of the names
RxLoad ==
    /\ script = "rxnorm" /\ pc = "start"
    /\ IF ~input.exists
       THEN /\ pc' = "failed" /\ err' = "FileNotFoundError"
            /\ UNCHANGED raw
       ELSE IF read_csv(Records(input), ReadDefaults).err # NoErr
       THEN /\ pc' = "failed" /\ err' = read_csv(Records(input), ReadDefaults).err
            /\ UNCHANGED raw
       ELSE /\ pc' = "loaded"
            /\ raw' = [read_csv(Records(input), ReadDefaults).df EXCEPT !.cols = StripCols(@)]
            /\ UNCHANGED err
    /\ UNCHANGED <<script, input, clock, out, files, stamp, npi_arg, npi_ret>>

RxClean ==
    /\ script = "rxnorm" /\ pc = "loaded"
    /\ IF RxError(raw) # NoErr
       THEN /\ pc' = "failed" /\ err' = RxError(raw)
            /\ UNCHANGED <<out, stamp>>
       ELSE IF Len(raw.rows) = 0
       THEN \* as in npi_processor: the empty mask of line 87 drops the columns
            /\ pc' = "failed" /\ err' = "KeyError"
            /\ UNCHANGED <<out, stamp>>
       ELSE \/ LET now == now_utc_iso(clock)
               IN  /\ out' = AssignColumn(RxRecords(raw, FirstPresent(rx_NPI_CANDIDATES, raw.cols)),
                                          S_last_updated, now)
                   /\ stamp' = Append(stamp, now)
                   /\ pc' = "cleaned"
                   /\ UNCHANGED err
            \/ \* line 81: the sort of the united labels, texts and integers
               /\ RxSortRaises(raw)
               /\ pc' = "failed" /\ err' = "TypeError"
               /\ UNCHANGED <<out, stamp>>
    /\ UNCHANGED <<script, input, clock, raw, files, npi_arg, npi_ret>>

RxSave ==
    /\ script = "rxnorm" /\ pc = "cleaned"
    /\ files' = Append(files, save_to_formats(out, "output/csv/npi_latest"))
    /\ pc' = "saved"
    /\ UNCHANGED <<script, input, clock, raw, out, err, stamp, npi_arg, npi_ret>>

\* the input files drawn for the two NPI scripts
NpiLayouts ==
    { <<[name |-> <<"N","P","I">>, field |-> "npi"],
        [name |-> <<"P","r","o","v","i","d","e","r"," ","O","r","g","a","n","i","z","a","t","i","o","n"," ","N","a","m","e"," ","(","L","e","g","a","l"," ","B","u","s","i","n","e","s","s"," ","N","a","m","e",")">>, field |-> "org"]>>,
      <<[name |-> <<"P","r","o","v","i","d","e","r"," ","L","a","s","t"," ","N","a","m","e"," ","(","L","e","g","a","l"," ","N","a","m","e",")">>, field |-> "last"],
        [name |-> <<"n","p","i">>, field |-> "npi"],
        [name |-> <<"P","r","o","v","i","d","e","r"," ","F","i","r","s","t"," ","N","a","m","e">>, field |-> "first"]>>,
      <<[name |-> <<"P","h","o","n","e">>, field |-> "phone"], [name |-> <<"N","u","m","b","e","r">>, field |-> "npi"],
        [name |-> <<"O","r","g"," ","N","a","m","e">>, field |-> "org"]>>,
      <<[name |-> <<" ","N","P","I">>, field |-> "npi"], [name |-> <<"O","r","g"," ","N","a","m","e">>, field |-> "org"]>>,
      <<[name |-> <<"N","p","i">>, field |-> "npi"], [name |-> <<"P","h","o","n","e">>, field |-> "phone"]>> }
NpiRowPool ==
    { [npi |-> <<"1","2","3","4","5","6","7","8","9","3">>, org |-> <<"A","c","m","e">>, first |-> <<>>, last |-> <<>>, phone |-> <<"5","5","5","1","2","3","4","5","6","7">>],
      [npi |-> <<"1","2","3","4","5","6","7","8","9","3">>, org |-> <<"D","u","p">>, first |-> <<"A","l">>, last |-> <<"B","o">>, phone |-> <<>>],
      [npi |-> <<"1","2","3","-","4","5","6","-","7","8","9","3">>, org |-> <<>>, first |-> <<" ","A","l"," ">>, last |-> <<>>, phone |-> <<"5","5","5","1","2","3","4","5","6","7">>],
      [npi |-> <<"1","2","3","4","5","6","7","8","9","0">>, org |-> <<"B","a","d">>, first |-> <<"X">>, last |-> <<"Y">>, phone |-> <<"n","/","a">>],
      [npi |-> <<" ","1","2","4","5","3","1","9","5","9","9"," ">>, org |-> <<" ">>, first |-> <<>>, last |-> <<>>, phone |-> <<"5","5","5","1","2","3","4","5","6","7">>] }
\* files that exercise the reader, the labels of the rows and the selection by
\* label: no line at all; a later or a first row longer than the header; rows
\* led by texts that ascend or descend, by a repeated text, by two texts; names that
\* are equal as written or once stripped; a name that is blank
NpiSpecial ==
    { [kind |-> "csv", exists |-> TRUE,
        header |-> <<>>,
        rows |-> <<>>],
      [kind |-> "csv", exists |-> TRUE,
        header |-> <<<<"X">>, <<"X"," ">>>>,
        rows |-> <<<<<<"a">>, <<"b">>>>>>],
      [kind |-> "csv", exists |-> TRUE,
        header |-> <<<<"I","d">>, <<"O","r","g"," ","N","a","m","e">>>>,
        rows |-> <<<<<<"1","2","3","4","5","6","7","8","9","3">>, <<"A","c","m","e">>>>,
                  <<<<"1","2","4","5","3","1","9","5","9","9">>, <<"B","e","t","a">>, <<"m","o","r","e">>>>>>],
      [kind |-> "csv", exists |-> TRUE,
        header |-> <<<<"N","P","I">>, <<"O","r","g"," ","N","a","m","e">>, <<"P","h","o","n","e">>>>,
        rows |-> <<<<<<"1","2","3","4","5","6","7","8","9","3">>, <<"A","c","m","e">>, <<"1">>>>,
                  <<<<"1","2","4","5","3","1","9","5","9","9">>, <<"B","e","t","a">>, <<"2">>, <<"m","o","r","e">>>>>>],
      [kind |-> "csv", exists |-> TRUE,
        header |-> <<<<"N","P","I">>, <<"O","r","g"," ","N","a","m","e">>>>,
        rows |-> <<<<<<"1","2","3","4","5","6","7","8","9","3">>, <<"A","c","m","e">>, <<"m","o","r","e">>>>,
                  <<<<"1","2","4","5","3","1","9","5","9","9">>, <<"B","e","t","a">>>>>>],
      [kind |-> "csv", exists |-> TRUE,
        header |-> <<<<"N","P","I">>, <<"O","r","g"," ","N","a","m","e">>, <<"P","h","o","n","e">>>>,
        rows |-> <<<<<<"k","1">>, <<"1","2","3","4","5","6","7","8","9","3">>, <<"A","c","m","e">>, <<"1">>>>,
                  <<<<"k","2">>, <<"1","2","4","5","3","1","9","5","9","9">>, <<"B","e","t","a">>, <<"2">>>>>>],
      [kind |-> "csv", exists |-> TRUE,
        header |-> <<<<"N","P","I">>, <<"P","h","o","n","e">>>>,
        rows |-> <<<<<<"k","1">>, <<"1","2","3","4","5","6","7","8","9","3">>, <<"1">>>>,
                  <<<<"k","2">>, <<"1","2","4","5","3","1","9","5","9","9">>, <<"2">>>>>>],
      [kind |-> "csv", exists |-> TRUE,
        header |-> <<<<"N","P","I">>, <<"P","h","o","n","e">>>>,
        rows |-> <<<<<<"k","2">>, <<"1","2","3","4","5","6","7","8","9","3">>, <<"1">>>>,
                  <<<<"k","1">>, <<"1","2","4","5","3","1","9","5","9","9">>, <<"2">>>>>>],
      [kind |-> "csv", exists |-> TRUE,
        header |-> <<<<"N","P","I">>, <<"P","h","o","n","e">>>>,
        rows |-> <<<<<<"0">>, <<"1","2","3","4","5","6","7","8","9","3">>, <<"1">>>>,
                  <<<<"1">>, <<"1","2","4","5","3","1","9","5","9","9">>, <<"2">>>>>>],
      [kind |-> "csv", exists |-> TRUE,
        header |-> <<<<"N","P","I">>, <<"P","h","o","n","e">>>>,
        rows |-> <<<<<<"k","1">>, <<"1","2","3","4","5","6","7","8","9","3">>, <<"1">>>>,
                  <<<<"k","1">>, <<"1","2","4","5","3","1","9","5","9","9">>, <<"2">>>>>>],
      [kind |-> "csv", exists |-> TRUE,
        header |-> <<<<"N","P","I">>, <<"P","h","o","n","e">>>>,
        rows |-> <<<<<<"k","1">>, <<"k","2">>, <<"1","2","3","4","5","6","7","8","9","3">>, <<"1">>>>>>],
      [kind |-> "csv", exists |-> TRUE,
        header |-> <<<<"N","P","I">>, <<"P","r","o","v","i","d","e","r"," ","F","i","r","s","t"," ","N","a","m","e">>, <<"P","h","o","n","e">>>>,
        rows |-> <<<<<<"k","1">>, <<"1","2","3","4","5","6","7","8","9","3">>, <<"A","l">>, <<"1">>>>,
                  <<<<"k","2">>, <<"1","2","4","5","3","1","9","5","9","9">>, <<>>, <<"2">>>>>>],
      [kind |-> "csv", exists |-> TRUE,
        header |-> <<<<"N","P","I">>, <<"P","r","o","v","i","d","e","r"," ","N","a","m","e"," ","P","r","e","f","i","x"," ","T","e","x","t">>, <<"P","h","o","n","e">>>>,
        rows |-> <<<<<<"k","1">>, <<"1","2","3","4","5","6","7","8","9","3">>, <<"D","r">>, <<"1">>>>>>],
      [kind |-> "csv", exists |-> TRUE,
        header |-> <<<<"N","P","I">>, <<"P","r","o","v","i","d","e","r"," ","F","i","r","s","t"," ","N","a","m","e">>, <<"P","h","o","n","e">>>>,
        rows |-> <<<<<<"k","1">>, <<"1","2","3","4","5","6","7","8","9","3">>, <<"A","l">>, <<"1">>>>,
                  <<<<"k","1">>, <<"1","2","4","5","3","1","9","5","9","9">>, <<"B","o">>, <<"2">>>>>>],
      [kind |-> "csv", exists |-> TRUE,
        header |-> <<<<"N","P","I">>, <<"P","r","o","v","i","d","e","r"," ","F","i","r","s","t"," ","N","a","m","e">>, <<"P","h","o","n","e">>>>,
        rows |-> <<<<<<"k","1">>, <<"k","2">>, <<"1","2","3","4","5","6","7","8","9","3">>, <<"A","l">>, <<"1">>>>>>],
      [kind |-> "csv", exists |-> TRUE,
        header |-> <<<<"N","P","I">>, <<"P","r","o","v","i","d","e","r"," ","F","i","r","s","t"," ","N","a","m","e">>>>,
        rows |-> <<<<<<"a">>, <<"b">>, <<"1","2","3","4","5","6","7","8","9","3">>, <<"A","n","n">>>>>>],
      [kind |-> "csv", exists |-> TRUE,
        header |-> <<<<"N","P","I">>, <<"P","r","o","v","i","d","e","r"," ","F","i","r","s","t"," ","N","a","m","e">>>>,
        rows |-> <<<<<<"a">>, <<"b">>, <<"1","2","3","4","5","6","7","8","9","3">>, <<"A","n","n">>>>,
                  <<<<"a">>, <<"b">>, <<"1","2","4","5","3","1","9","5","9","9">>, <<"B","o">>>>>>],
      [kind |-> "csv", exists |-> TRUE,
        header |-> <<<<"N","P","I">>, <<"P","r","o","v","i","d","e","r"," ","N","a","m","e"," ","P","r","e","f","i","x"," ","T","e","x","t">>>>,
        rows |-> <<<<<<"a">>, <<"b">>, <<"1","2","3","4","5","6","7","8","9","3">>, <<"D","r">>>>>>],
      [kind |-> "csv", exists |-> TRUE,
        header |-> <<<<"N","P","I">>, <<"N","P","I"," ">>, <<"O","r","g"," ","N","a","m","e">>>>,
        rows |-> <<<<<<"1","2","3","4","5","6","7","8","9","3">>, <<"1","2","4","5","3","1","9","5","9","9">>, <<"A","c","m","e">>>>>>],
      [kind |-> "csv", exists |-> TRUE,
        header |-> <<<<"N","P","I">>, <<"O","r","g"," ","N","a","m","e">>, <<"O","r","g"," ","N","a","m","e"," ">>>>,
        rows |-> <<<<<<"1","2","3","4","5","6","7","8","9","3">>, <<"A","c","m","e">>, <<"B","e","t","a">>>>>>],
      [kind |-> "csv", exists |-> TRUE,
        header |-> <<<<"N","P","I">>, <<"P","r","o","v","i","d","e","r"," ","F","i","r","s","t"," ","N","a","m","e">>, <<"P","r","o","v","i","d","e","r"," ","F","i","r","s","t"," ","N","a","m","e"," ">>>>,
        rows |-> <<<<<<"1","2","3","4","5","6","7","8","9","3">>, <<"A","l">>, <<"B","o">>>>>>],
      [kind |-> "csv", exists |-> TRUE,
        header |-> <<<<"I","d">>, <<"I","d"," ">>, <<"O","r","g"," ","N","a","m","e">>>>,
        rows |-> <<<<<<"1","2","3","4","5","6","7","8","9","3">>, <<"1","2","4","5","3","1","9","5","9","9">>, <<"A","c","m","e">>>>>>],
      [kind |-> "csv", exists |-> TRUE,
        header |-> <<<<"I","d">>, <<"I","d">>, <<"O","r","g"," ","N","a","m","e">>>>,
        rows |-> <<<<<<"1","2","4","5","3","1","9","5","9","9","0">>, <<"1","2","3","4","5","6","7","8","9","3">>, <<"A","c","m","e">>>>>>],
      [kind |-> "csv", exists |-> TRUE,
        header |-> <<<<" ">>, <<"O","r","g"," ","N","a","m","e">>>>,
        rows |-> <<<<<<"1","2","3","4","5","6","7","8","9","3">>, <<"A","c","m","e">>>>>>] }
NpiInputs ==
    {MissingCsv} \cup NpiSpecial \cup {Csv(l, rs) : l \in NpiLayouts, rs \in SeqsUpTo(NpiRowPool, MaxRows)}

(***************************************************************************)
(* icd10who_processor.py.  An XML element is [tag, attrib, text,           *)
(* children]; attrib is the sequence of its (name, value) pairs in         *)
(* document order, text is "" where ElementTree gives None.                *)
(***************************************************************************)
WhoLiteral == <<"2","0","2","5","-","0","9","-","0","3">>
WhoCodeAttrs == { <<"c","o","d","e">>, <<"i","d">>, <<"c","o","d","e","i","d">>, <<"i","c","d","c","o","d","e">> }
WhoCodeTags == { <<"t","i","t","l","e">>, <<"n","a","m","e">>, <<"d","e","s","c">>, <<"l","a","b","e","l">> }
DESC_TAGS == { <<"t","i","t","l","e">>, <<"n","a","m","e">>, <<"d","e","s","c">>, <<"l","a","b","e","l">>, <<"d","e","f","i","n","i","t","i","o","n">>, <<"r","u","b","r","i","c">>,
               <<"t","e","x","t">>, <<"c","a","p","t","i","o","n">> }
S_dot_xml == <<".","x","m","l">>

\* tag.split('}', 1)[-1]
RECURSIVE strip_ns(_)
strip_ns(tag) ==
    IF \A i \in 1..Len(tag) : tag[i] # "}" THEN tag
    ELSE IF Head(tag) = "}" THEN Tail(tag)
    ELSE strip_ns(Tail(tag))

\* at position n of t (after n characters, the n-th a word character): \b
BoundaryAfter(t, n) == n = Len(t) \/ ~IsWord(t[n + 1])

\* the length re.match(r'^[A-TV-Z][0-9][0-9A-Z](?:\.[0-9A-Z]{1,4})?\b', t) matches, 0
\* for no match: the suffix is tried longest first
IcdPrefixLen(t) ==
    IF ~(Len(t) >= 3 /\ FullMatchIcd(SubSeq(t, 1, 3))) THEN 0
    ELSE LET ok == {k \in 1..4 : /\ Len(t) >= 4 + k
                                 /\ FullMatchIcd(SubSeq(t, 1, 4 + k))
                                 /\ BoundaryAfter(t, 4 + k)}
         IN  IF ok # {} THEN 4 + (CHOOSE k \in ok : \A m \in ok : m <= k)
             ELSE IF BoundaryAfter(t, 3) THEN 3
             ELSE 0

\* [:\s-]*
RECURSIVE SkipSeparators(_)
SkipSeparators(t) ==
    IF t # <<>> /\ (Head(t) \in {":", "-"} \/ IsSpace(Head(t))) THEN SkipSeparators(Tail(t))
    ELSE t

remove_leading_code(txt) ==
    LET n == IcdPrefixLen(txt)
    IN  IF n = 0 THEN Strip(txt)
        ELSE Strip(SkipSeparators(SubSeq(txt, n + 1, Len(txt))))

\* lines 41-44: the first attribute whose stripped value is a code and whose
\* name is a code attribute; <<>> for None
RECURSIVE WhoAttrCode(_)
WhoAttrCode(attrib) ==
    IF attrib = <<>> THEN <<>>
    ELSE LET v == Strip(Head(attrib).v)
         IN  IF FullMatchIcd(v) /\ Lower(strip_ns(Head(attrib).k)) \in WhoCodeAttrs
             THEN Upper(v)
             ELSE WhoAttrCode(Tail(attrib))

\* lines 46-51: the code a title-like child's text starts with
RECURSIVE WhoChildCode(_)
WhoChildCode(children) ==
    IF children = <<>> THEN <<>>
    ELSE LET t == Strip(Head(children).text)
         IN  IF Lower(strip_ns(Head(children).tag)) \in WhoCodeTags /\ IcdPrefixLen(t) > 0
             THEN Upper(SubSeq(t, 1, IcdPrefixLen(t)))
             ELSE WhoChildCode(Tail(children))

\* lines 55-62: desc as the loop over the children leaves it
RECURSIVE WhoChildDesc(_, _)
WhoChildDesc(children, desc) ==
    IF children = <<>> THEN desc
    ELSE LET t == Strip(Head(children).text)
         IN  IF Lower(strip_ns(Head(children).tag)) \in DESC_TAGS /\ t # <<>>
             THEN (IF remove_leading_code(t) # <<>> THEN remove_leading_code(t)
                   ELSE WhoChildDesc(Tail(children), <<>>))
             ELSE WhoChildDesc(Tail(children), desc)

\* lines 40-66 for one element: the row appended, if any
WhoRowsOf(el) ==
    LET c1   == WhoAttrCode(el.attrib)
        code == IF c1 # <<>> THEN c1 ELSE WhoChildCode(el.children)
        d1   == WhoChildDesc(el.children, <<>>)
        desc == IF d1 # <<>> THEN d1 ELSE remove_leading_code(Strip(el.text))
    IN  IF code # <<>> /\ desc # <<>> THEN <<(<<code, desc>>)>> ELSE <<>>

\* root.iter(): the element, then its descendants, in document order
RECURSIVE WhoIter(_)
RECURSIVE WhoIterAll(_)
WhoIter(el) == <<el>> \o WhoIterAll(el.children)
WhoIterAll(els) == IF els = <<>> THEN <<>> ELSE WhoIter(Head(els)) \o WhoIterAll(Tail(els))

RECURSIVE WhoRows(_)
WhoRows(els) == IF els = <<>> THEN <<>> ELSE WhoRowsOf(Head(els)) \o WhoRows(Tail(els))

\* str.endswith
EndsWith(s, suffix) ==
    Len(s) >= Len(suffix) /\ SubSeq(s, Len(s) - Len(suffix) + 1, Len(s)) = suffix

\* load_root for IN_PATH, a .zip path: the first entry named *.xml; 0 for none
WhoXmlEntry(entries) ==
    LET hits == {i \in 1..Len(entries) : EndsWith(Lower(entries[i].name), S_dot_xml)}
    IN  IF hits = {} THEN 0 ELSE CHOOSE i \in hits : \A k \in hits : i <= k
\* zf.read(name): of the entries that carry the name, the archive gives the last
ZipRead(entries, name) ==
    entries[CHOOSE i \in 1..Len(entries) :
                /\ entries[i].name = name
                /\ \A k \in (i + 1)..Len(entries) : entries[k].name # name]

WhoLoad ==
    /\ script = "icd10who" /\ pc = "start"
    /\ IF ~input.exists
       THEN /\ pc' = "failed" /\ err' = "FileNotFoundError"
            /\ UNCHANGED raw
       ELSE IF WhoXmlEntry(input.entries) = 0
       THEN /\ pc' = "failed" /\ err' = "RuntimeError"
            /\ UNCHANGED raw
       ELSE /\ pc' = "parsed"
            /\ raw' = DF(<<>>, <<ZipRead(input.entries,
                                         input.entries[WhoXmlEntry(input.entries)].name).root>>)
            /\ UNCHANGED err
    /\ UNCHANGED <<script, input, clock, out, files, stamp, npi_arg, npi_ret>>

\* lines 38-66: rows; pd.DataFrame(rows) has the two columns only when rows is not empty
WhoExtract ==
    /\ script = "icd10who" /\ pc = "parsed"
    /\ LET rows == WhoRows(WhoIter(raw.rows[1]))
       IN  raw' = DF(IF rows = <<>> THEN <<>> ELSE <<S_code, S_description>>, rows)
    /\ pc' = "loaded"
    /\ UNCHANGED <<script, input, clock, out, files, err, stamp, npi_arg, npi_ret>>

\* lines 68-79
WhoClean ==
    /\ script = "icd10who" /\ pc = "loaded"
    /\ IF ~HasCol(raw.cols, S_code)
       THEN \* the frame built from no rows has no columns: df["code"] raises
            /\ pc' = "failed" /\ err' = "KeyError"
            /\ UNCHANGED out
       ELSE LET r1 == drop_duplicates(raw.rows, 1)
                r2 == SelectSeq(r1, LAMBDA r : FullMatchIcd(r[1]))
                r3 == SelectSeq(r2, LAMBDA r : Strip(AsStr(r[2])) # <<>>)
            IN  /\ out' = AssignColumn(AssignColumn(DF(raw.cols, r3), S_last_updated,
                                                    now_utc_iso(clock)),
                                       S_last_updated, WhoLiteral)
                /\ pc' = "cleaned"
                /\ UNCHANGED err
    /\ UNCHANGED <<script, input, clock, raw, files, stamp, npi_arg, npi_ret>>

\* line 80: df.to_csv(OUT_PATH, index=False)
WhoSave ==
    /\ script = "icd10who" /\ pc = "cleaned"
    /\ files' = Append(files, WriteCsv([base |-> "output/csv/icd10who_latest", suffix |-> ".csv"],
                                       out, FALSE))
    /\ pc' = "saved"
    /\ UNCHANGED <<script, input, clock, raw, out, err, stamp, npi_arg, npi_ret>>

\* the input files drawn for the ICD-10-WHO script
Leaf(tag, text) == [tag |-> tag, attrib |-> <<>>, text |-> text, children |-> <<>>]
WhoElementPool ==
    { [tag |-> <<"C","l","a","s","s">>, attrib |-> <<[k |-> <<"c","o","d","e">>, v |-> <<"A","0","0">>]>>, text |-> <<>>,
       children |-> <<Leaf(<<"t","i","t","l","e">>, <<"C","h","o","l","e","r","a">>)>>],
      [tag |-> <<"C","l","a","s","s">>, attrib |-> <<>>, text |-> <<>>,
       children |-> <<Leaf(<<"T","i","t","l","e">>, <<"\n"," ","A","0","0","\n","T","y","p","h","u","s","\n">>)>>],
      [tag |-> <<"C","l","a","s","s">>, attrib |-> <<[k |-> <<"k","i","n","d">>, v |-> <<"C","5","0">>], [k |-> <<"C","o","d","e">>, v |-> <<" ","B","0","1",".","1"," ">>]>>,
       text |-> <<" ","V","a","r","i","c","e","l","l","a"," ">>, children |-> <<Leaf(<<"l","a","b","e","l">>, <<"B","0","1",".","1">>)>>],
      [tag |-> <<"C","l","a","s","s">>, attrib |-> <<[k |-> <<"c","o","d","e">>, v |-> <<"U","0","7">>]>>, text |-> <<>>,
       children |-> <<Leaf(<<"l","a","b","e","l">>, <<"C","o","v","i","d">>)>>],
      [tag |-> <<"{","n","s","}","C","l","a","s","s">>, attrib |-> <<[k |-> <<"{","n","s","}","I","D">>, v |-> <<"A","0","0">>]>>, text |-> <<>>,
       children |-> <<Leaf(<<"{","n","s","}","R","u","b","r","i","c">>, <<"A","0","0",":"," ","-"," ","O","t","h","e","r">>)>>],
      [tag |-> <<"C","l","a","s","s">>, attrib |-> <<[k |-> <<"c","o","d","e">>, v |-> <<"c","5","0">>]>>, text |-> <<>>,
       children |-> <<Leaf(<<"n","a","m","e">>, <<"c","5","0"," ","l","o","w","e","r">>)>>],
      [tag |-> <<"C","l","a","s","s">>, attrib |-> <<[k |-> <<"i","d">>, v |-> <<"C","5","0">>]>>, text |-> <<"C","5","0">>,
       children |-> <<Leaf(<<"t","i","t","l","e">>, <<"\n","\t">>)>>] }
WhoRoot(els) == [tag |-> <<"C","l","a","M","L">>, attrib |-> <<>>, text |-> <<>>, children |-> els]
WhoReadme == [name |-> <<"r","e","a","d","m","e",".","t","x","t">>, root |-> WhoRoot(<<>>)]
WhoInputs ==
    {[kind |-> "zip", exists |-> FALSE, entries |-> <<>>],
     [kind |-> "zip", exists |-> TRUE, entries |-> <<>>],
     [kind |-> "zip", exists |-> TRUE, entries |-> <<WhoReadme>>]}
    \cup {[kind |-> "zip", exists |-> TRUE,
           entries |-> <<WhoReadme, [name |-> <<"i","c","d","1","0","2","0","1","9","e","n",".","X","M","L">>, root |-> WhoRoot(els)]>>]
          : els \in SeqsUpTo(WhoElementPool, MaxRows)}
    \cup {[kind |-> "zip", exists |-> TRUE,
           entries |-> <<[name |-> <<"a",".","x","m","l">>, root |-> WhoRoot(<<>>)],
                         [name |-> <<"a",".","x","m","l">>, root |-> WhoRoot(<<el>>)]>>]
          : el \in WhoElementPool}

(***************************************************************************)
(* icd10cm_processor.py: load_icd10cm_data.  The input is the text file,   *)
(* a sequence of lines (without their line ends).                          *)
(***************************************************************************)
\* csv.reader(f, delimiter=sep, quotechar='"', doublequote=True, strict=True),
\* as the python engine of read_csv sets it up, over the characters of one line
\* from i on. q is the state of the reader: "record" before the first character
\* of a record, "start" at the start of a field, "in" inside a field without
\* quotes, "quoted" inside quotes, "quote" after a quote seen inside quotes. At
\* the end of the line q is "done" (the record is complete), "quoted" (the
\* field goes on in the next line) or "error" (a character other than the
\* separator follows a closing quote)
RECURSIVE CsvChars(_, _, _, _, _, _)
CsvChars(line, i, sep, q, field, fields) ==
    IF i > Len(line)
    THEN CASE q = "record" -> [q |-> "done", field |-> <<>>, fields |-> <<>>]
           [] q = "quoted" -> [q |-> "quoted", field |-> Append(field, "\n"), fields |-> fields]
           [] OTHER        -> [q |-> "done", field |-> <<>>, fields |-> Append(fields, field)]
    ELSE CASE q \in {"record", "start"} ->
                IF line[i] = "\"" THEN CsvChars(line, i + 1, sep, "quoted", field, fields)
                ELSE IF line[i] = sep
                THEN CsvChars(line, i + 1, sep, "start", <<>>, Append(fields, field))
                ELSE CsvChars(line, i + 1, sep, "in", Append(field, line[i]), fields)
           [] q = "in" ->
                IF line[i] = sep
                THEN CsvChars(line, i + 1, sep, "start", <<>>, Append(fields, field))
                ELSE CsvChars(line, i + 1, sep, "in", Append(field, line[i]), fields)
           [] q = "quoted" ->
                IF line[i] = "\"" THEN CsvChars(line, i + 1, sep, "quote", field, fields)
                ELSE CsvChars(line, i + 1, sep, "quoted", Append(field, line[i]), fields)
           [] q = "quote" ->
                IF line[i] = "\"" THEN CsvChars(line, i + 1, sep, "quoted", Append(field, "\""), fields)
                ELSE IF line[i] = sep
                THEN CsvChars(line, i + 1, sep, "start", <<>>, Append(fields, field))
                ELSE [q |-> "error", field |-> <<>>, fields |-> <<>>]

\* the fields the reader makes of one line that is a record of its own
Split(line, sep) == CsvChars(line, 1, sep, "record", <<>>, <<>>).fields

\* the records of the file; the end of the file inside quotes is an error, and
\* read_csv raises ParserError for an error of the reader
RECURSIVE CsvRecords(_, _, _, _, _)
RECURSIVE CsvNext(_, _, _)
CsvPut(rec, res) == [err |-> res.err, records |-> <<rec>> \o res.records]
CsvRecords(lines, sep, q, field, fields) ==
    IF lines = <<>>
    THEN [err |-> IF q = "quoted" THEN "ParserError" ELSE NoErr, records |-> <<>>]
    ELSE CsvNext(Tail(lines), sep, CsvChars(Head(lines), 1, sep, q, field, fields))
CsvNext(rest, sep, r) ==
    IF r.q = "error" THEN [err |-> "ParserError", records |-> <<>>]
    ELSE IF r.q = "quoted" THEN CsvRecords(rest, sep, "quoted", r.field, r.fields)
    ELSE CsvPut(r.fields, CsvRecords(rest, sep, "record", <<>>, <<>>))

\* pd.read_csv(path, sep=sep, dtype=str, engine="python") on the lines of the
\* file: the reader's error is a ParserError
ReadDelimited(lines, sep) ==
    LET res == CsvRecords(lines, sep, "record", <<>>, <<>>)
    IN  IF res.err # NoErr THEN Raised(res.err)
        ELSE read_csv(res.records, [ReadDefaults EXCEPT !.engine = "python"])

\* the length of the run of digits (of characters other than white space) s starts with
RECURSIVE DigitSpan(_)
DigitSpan(s) == IF s # <<>> /\ IsDigit(Head(s)) THEN 1 + DigitSpan(Tail(s)) ELSE 0
RECURSIVE TokenSpan(_)
TokenSpan(s) == IF s # <<>> /\ ~IsSpace(Head(s)) THEN 1 + TokenSpan(Tail(s)) ELSE 0
Drop(s, n) == SubSeq(s, n + 1, Len(s))

\* the common start of the two line patterns,
\*   ^\s*(\d+)\s+([A-TV-Z][0-9][0-9A-Z](?:\.[0-9A-Z]{1,4})?)\s+([01])\s+
\* read left to right: a is the line after its leading white space, nd the
\* length of the order number, c the text from the code on, nc the length of
\* the code token, e the text from the validity digit on, rest the text after
\* the white space that follows the validity digit
FixedText(a, nd, c, nc, e, rest) ==
    [ok    |-> /\ nd >= 1 /\ Len(a) - nd > Len(c)
               /\ FullMatchIcd(SubSeq(c, 1, nc)) /\ Len(c) - nc > Len(e)
               /\ e # <<>> /\ e[1] \in {"0", "1"} /\ Len(e) - 1 > Len(rest),
     order |-> SubSeq(a, 1, nd),
     code  |-> SubSeq(c, 1, nc),
     valid |-> IF e = <<>> THEN <<>> ELSE <<e[1]>>,
     gap   |-> IF e = <<>> THEN 0 ELSE Len(e) - 1 - Len(rest),
     rest  |-> rest]
FixedValid(a, nd, c, nc, e) == FixedText(a, nd, c, nc, e, LStrip(Drop(e, 1)))
FixedCode(a, nd, c, nc) == FixedValid(a, nd, c, nc, LStrip(Drop(c, nc)))
FixedOrder(a, nd, c) == FixedCode(a, nd, c, TokenSpan(c))
FixedStart(a, nd) == FixedOrder(a, nd, LStrip(Drop(a, nd)))
FixedPrefix(s) == FixedStart(LStrip(s), DigitSpan(LStrip(s)))

\* the first position from i on where two white-space characters start; 0 for none
RECURSIVE FirstDoubleSpace(_, _)
FirstDoubleSpace(rest, i) ==
    IF i >= Len(rest) THEN 0
    ELSE IF IsSpace(rest[i]) /\ IsSpace(rest[i + 1]) THEN i
    ELSE FirstDoubleSpace(rest, i + 1)

\* line_pat_long: ... (.*?)\s{2,}(.*?)\s*$ . The lazy short description ends at
\* the first double space g; with none, the pattern still matches when three or
\* more white-space characters follow the validity digit (an empty short
\* description, the two last of them the separator)
LongGroups(p, g) ==
    IF ~p.ok THEN [ok |-> FALSE, p |-> p, short |-> <<>>, long |-> <<>>]
    ELSE IF g # 0 THEN [ok |-> TRUE, p |-> p, short |-> SubSeq(p.rest, 1, g - 1),
                        long |-> Strip(Drop(p.rest, g - 1))]
    ELSE IF p.gap >= 3 THEN [ok |-> TRUE, p |-> p, short |-> <<>>, long |-> RStrip(p.rest)]
    ELSE [ok |-> FALSE, p |-> p, short |-> <<>>, long |-> <<>>]
LongOf(p) == LongGroups(p, FirstDoubleSpace(p.rest, 1))
LongMatch(s) == LongOf(FixedPrefix(s))

\* line_pat_short: ... (.*\S)\s*$
ShortOf(p) ==
    IF p.ok /\ RStrip(p.rest) # <<>> THEN [ok |-> TRUE, p |-> p, short |-> RStrip(p.rest)]
    ELSE [ok |-> FALSE, p |-> p, short |-> <<>>]
ShortMatch(s) == ShortOf(FixedPrefix(s))

FixedCols ==
    << <<"O","r","d","e","r">>, <<"I","C","D","-","1","0","-","C","M"," ","C","o","d","e">>, <<"V","a","l","i","d">>, <<"S","h","o","r","t"," ","D","e","s","c","r","i","p","t","i","o","n">>, <<"L","o","n","g"," ","D","e","s","c","r","i","p","t","i","o","n">> >>

\* lines 41-64: what one line appends to the rows, long pattern first
\* (the loop as it would be if line 55 were missing: a row of the short
\* pattern is left without a long description)
FixedRow_nolong(s, m, m2) ==
    IF Strip(s) = <<>> THEN <<>>
    ELSE IF m.ok
    THEN <<(<<Strip(m.p.order), Upper(Strip(m.p.code)), Strip(m.p.valid),
              Strip(m.short), Strip(m.long)>>)>>
    ELSE IF m2.ok
    THEN <<(<<Strip(m2.p.order), Upper(Strip(m2.p.code)), Strip(m2.p.valid),
              Strip(m2.short), <<>>>>)>>
    ELSE <<>>
FixedRow(s, m, m2) ==
    IF Strip(s) = <<>> THEN <<>>
    ELSE IF m.ok
    THEN <<(<<Strip(m.p.order), Upper(Strip(m.p.code)), Strip(m.p.valid),
              Strip(m.short), Strip(m.long)>>)>>
    ELSE IF m2.ok
    THEN <<(<<Strip(m2.p.order), Upper(Strip(m2.p.code)), Strip(m2.p.valid),
              Strip(m2.short), Strip(m2.short)>>)>>
    ELSE <<>>

RECURSIVE FixedRows(_)
FixedRows(lines) ==
    IF lines = <<>> THEN <<>>
    ELSE FixedRow(Head(lines), LongMatch(Head(lines)), ShortMatch(Head(lines)))
         \o FixedRows(Tail(lines))

\* load_icd10cm_data for a file that exists: the dataset returned, or the exception
load_icd10cm_data(lines) ==
    LET tab   == ReadDelimited(lines, "\t")
        comma == ReadDelimited(lines, ",")
        first == IF tab.err # NoErr THEN comma ELSE tab
        rows  == FixedRows(lines)
    IN  IF first.err # NoErr THEN [err |-> first.err, path |-> "none", df |-> NoData]
        ELSE IF Len(first.df.cols) > 1
        THEN [err |-> NoErr, path |-> "delimited", df |-> [first.df EXCEPT !.cols = StripCols(@)]]
        ELSE IF rows = <<>> THEN [err |-> "RuntimeError", path |-> "fixed", df |-> NoData]
        ELSE [err |-> NoErr, path |-> "fixed", df |-> DF(FixedCols, rows)]

(***************************************************************************)
(* icd10cm_processor.py: clean_icd10cm_data.                               *)
(***************************************************************************)
IcdCodeNames == << <<"I","C","D","-","1","0","-","C","M"," ","C","o","d","e">>, <<"I","C","D","-","1","0","-","C","M">>, <<"C","o","d","e">>, <<"c","o","d","e">>, <<"i","c","d","1","0","c","m">> >>
IcdDescNames ==
    << <<"L","o","n","g"," ","D","e","s","c","r","i","p","t","i","o","n">>, <<"D","e","s","c","r","i","p","t","i","o","n">>, <<"T","i","t","l","e">>, <<"S","h","o","r","t"," ","D","e","s","c","r","i","p","t","i","o","n">>,
       <<"s","h","o","r","t","_","d","e","s","c","r","i","p","t","i","o","n">>, <<"l","o","n","g","_","d","e","s","c","r","i","p","t","i","o","n">> >>

\* the code heuristic on one cell: astype(str), strip, upper, fullmatch
LooksIcd(v) == FullMatchIcd(Upper(Strip(AsStr(v))))
\* s.str.fullmatch(icd_pattern).mean(), for every column
IcdRates(df) ==
    [j \in 1..Len(df.cols) |-> MatchRate([i \in 1..Len(df.rows) |-> LooksIcd(df.rows[i][j])])]

\* df[c].astype(str).str.len().mean()
RECURSIVE SumLen(_, _)
SumLen(rows, j) == IF rows = <<>> THEN 0 ELSE Len(AsStr(Head(rows)[j])) + SumLen(Tail(rows), j)
MeanLen(df, j) == Mean(SumLen(df.rows, j), Len(df.rows))

\* max(candidates, key=...): the first candidate no later one exceeds
RECURSIVE MaxByLen(_, _, _)
MaxByLen(df, candidates, best) ==
    IF candidates = <<>> THEN best
    ELSE IF MeanGt(MeanLen(df, Head(candidates)), MeanLen(df, best))
         THEN MaxByLen(df, Tail(candidates), Head(candidates))
         ELSE MaxByLen(df, Tail(candidates), best)

\* lines 83-103: the code column's position, 0 for None
IcdCodeColumn(df) ==
    LET named == FirstPresent(IcdCodeNames, df.cols)
    IN  IF named # <<>> THEN ColIdx(df.cols, named)[1]
        ELSE ScanBest(IcdRates(df), 1, 0, MeanZero)

\* lines 87-109: the description column's position, 0 for None
IcdDescColumn(df) ==
    LET named == FirstPresent(IcdDescNames, df.cols)
        code  == IcdCodeColumn(df)
        candidates == SelectSeq([j \in 1..Len(df.cols) |-> j],
                                LAMBDA j : code = 0 \/ df.cols[j] # df.cols[code])
    IN  IF named # <<>> THEN ColIdx(df.cols, named)[1]
        ELSE IF candidates = <<>> THEN 0
        ELSE MaxByLen(df, Tail(candidates), Head(candidates))

\* the exception clean_icd10cm_data ends with before line 121, or NoErr. The
\* scans read df[c].astype(str).str of the columns they go over (lines 99 and
\* 109), and so do lines 117 and 118 of the two columns chosen: a label that
\* two columns carry selects a frame, which has no .str. Line 111 needs both
\* names, and tests them for truth: a column named "" is none. When one
\* column is both, the rename maps it to "description" and small["code"] is
\* missing
IcdError(df) ==
    LET code == IcdCodeColumn(df)
        desc == IcdDescColumn(df)
    IN  IF FirstPresent(IcdCodeNames, df.cols) = <<>> /\ ScanRaises(df.cols) THEN "AttributeError"
        ELSE IF /\ FirstPresent(IcdDescNames, df.cols) = <<>>
                /\ \E j \in 1..Len(df.cols) :
                      /\ code = 0 \/ df.cols[j] # df.cols[code]
                      /\ ~IsSeries(df.cols, df.cols[j]) THEN "AttributeError"
        ELSE IF code = 0 \/ desc = 0 THEN "KeyError"
        ELSE IF df.cols[code] = <<>> \/ df.cols[desc] = <<>> THEN "KeyError"
        ELSE IF df.cols[code] = df.cols[desc] THEN "KeyError"
        ELSE IF ~IsSeries(df.cols, df.cols[code]) \/ ~IsSeries(df.cols, df.cols[desc])
        THEN "AttributeError"
        ELSE NoErr

\* lines 114-122, up to the mask
IcdQualifying(df, code, desc) ==
    LET r1 == [i \in 1..Len(df.rows) |->
                 <<Upper(Strip(AsStr(df.rows[i][code]))), Strip(AsStr(df.rows[i][desc]))>>]
    IN  SelectSeq(r1, LAMBDA r : validate_code_format(r[1], icd_pattern) /\ r[2] # <<>>)
\* line 122: the drop of the duplicates
IcdRecords(df, code, desc) ==
    DF(<<S_code, S_description>>, drop_duplicates(IcdQualifying(df, code, desc), 1))

\* the load as it would be if the output file were opened before the input is
\* read: a failed load leaves an empty output file behind
IcdLoad_writes ==
    /\ script = "icd10cm" /\ pc = "start"
    /\ files' = Append(files, save_to_formats(NoData, "output/csv/icd10cm_latest"))
    /\ IF ~input.exists
       THEN /\ pc' = "failed" /\ err' = "FileNotFoundError"
            /\ UNCHANGED raw
       ELSE LET r == load_icd10cm_data(input.lines)
            IN  IF r.err # NoErr
                THEN /\ pc' = "failed" /\ err' = r.err
                     /\ UNCHANGED raw
                ELSE /\ pc' = "loaded"
                     /\ raw' = r.df
                     /\ UNCHANGED err
    /\ UNCHANGED <<script, input, clock, out, stamp, npi_arg, npi_ret>>
IcdLoad ==
    /\ script = "icd10cm" /\ pc = "start"
    /\ IF ~input.exists
       THEN /\ pc' = "failed" /\ err' = "FileNotFoundError"
            /\ UNCHANGED raw
       ELSE LET r == load_icd10cm_data(input.lines)
            IN  IF r.err # NoErr
                THEN /\ pc' = "failed" /\ err' = r.err
                     /\ UNCHANGED raw
                ELSE /\ pc' = "loaded"
                     /\ raw' = r.df
                     /\ UNCHANGED err
    /\ UNCHANGED <<script, input, clock, out, files, stamp, npi_arg, npi_ret>>

IcdClean ==
    /\ script = "icd10cm" /\ pc = "loaded"
    /\ IF IcdError(raw) # NoErr
       THEN /\ pc' = "failed" /\ err' = IcdError(raw)
            /\ UNCHANGED <<out, stamp>>
       ELSE LET now == now_utc_iso(clock)
            IN  /\ out' = AssignColumn(IcdRecords(raw, IcdCodeColumn(raw), IcdDescColumn(raw)),
                                       S_last_updated, now)
                /\ stamp' = Append(stamp, now)
                /\ pc' = "cleaned"
                /\ UNCHANGED err
    /\ UNCHANGED <<script, input, clock, raw, files, npi_arg, npi_ret>>

IcdSave ==
    /\ script = "icd10cm" /\ pc = "cleaned"
    /\ files' = Append(files, save_to_formats(out, "output/csv/icd10cm_latest"))
    /\ pc' = "saved"
    /\ UNCHANGED <<script, input, clock, raw, out, err, stamp, npi_arg, npi_ret>>

\* the input files drawn for the ICD-10-CM script: tables written with tabs or
\* with commas, order files of fixed-width lines, and files that mix both
RECURSIVE JoinWith(_, _)
JoinWith(fields, sep) ==
    IF fields = <<>> THEN <<>>
    ELSE IF Len(fields) = 1 THEN fields[1]
    ELSE fields[1] \o <<sep>> \o JoinWith(Tail(fields), sep)

TextFile(lines) == [kind |-> "text", exists |-> TRUE, lines |-> lines]
IcdTable(layout, recs, sep) ==
    TextFile(<<JoinWith([j \in 1..Len(layout) |-> layout[j].name], sep)>>
             \o [i \in 1..Len(recs) |->
                   JoinWith([j \in 1..Len(layout) |-> recs[i][layout[j].field]], sep)])

IcdLayouts ==
    { <<[name |-> <<" ","C","o","d","e">>, field |-> "code"], [name |-> <<"D","e","s","c","r","i","p","t","i","o","n"," ">>, field |-> "desc"]>>,
      <<[name |-> <<"X">>, field |-> "code"], [name |-> <<"Y">>, field |-> "desc"]>>,
      <<[name |-> <<"Y">>, field |-> "desc"], [name |-> <<"X">>, field |-> "code"],
        [name |-> <<"Z">>, field |-> "alt"]>>,
      <<[name |-> <<"c","o","d","e">>, field |-> "code"], [name |-> <<"Y">>, field |-> "desc"],
        [name |-> <<"Z">>, field |-> "alt"]>>,
      <<[name |-> <<"X">>, field |-> "desc"], [name |-> <<"T","i","t","l","e">>, field |-> "code"]>> }
IcdRowPool ==
    { [code |-> <<"A","0","0">>, desc |-> <<"C","h","o","l","e","r","a">>, alt |-> <<"B","0","1">>],
      [code |-> <<" ","a","0","0"," ">>, desc |-> <<"D","u","p">>, alt |-> <<"l","o","n","g","e","r"," ","t","e","x","t">>],
      [code |-> <<"U","0","7">>, desc |-> <<"C","o","v","i","d">>, alt |-> <<>>],
      [code |-> <<"B","0","1",".","1">>, desc |-> <<>>, alt |-> <<"C","h","o","l","e","r","a">>],
      [code |-> <<"B","0","1",".","1">>, desc |-> <<" ">>, alt |-> <<"x">>],
      [code |-> <<>>, desc |-> <<"A","0","0">>, alt |-> <<"C","5","0">>] }
IcdLinePool ==
    { <<"1"," ","A","0","0"," ","0"," ","C","h","o","l"," "," ","C","h",",","o","l","e","r","a">>,
      <<" ","0","2"," ","A","0","0",".","1"," ","1"," ","T","y","p","h","o","i","d"," ">>,
      <<"3"," ","A","0","0"," ","1"," "," "," ","D","u","p">>,
      <<"x"," ","U","0","7"," ","0"," ","C","o","v","i","d">>,
      <<" "," ">>,
      <<"4"," ","B","0","1"," ","0"," ","V","a","r"," "," ">> }
IcdMixedFiles ==
    { TextFile(<< <<"C","o","d","e",",","D","e","s","c","r","i","p","t","i","o","n">>, <<"A","0","0",",","C","h","o","l","e","r","a">>, <<"B","0","1","\t",",","V","a","r","\t","x">> >>),
      TextFile(<< <<"1"," ","A","0","0"," ","0"," ","a","\t","b">>, <<"2"," ","B","0","1"," ","1"," ","c","\t","d","\t","e">> >>),
      TextFile(<< <<"C","o","d","e","\t"," ">>, <<"A","0","0","\t","C","h","o","l","e","r","a">> >>),
      TextFile(<< <<"C","o","d","e","\t","T","i","t","l","e">>, <<"A","0","0","\t","\"","C","h","o","l","\t","e","r","a","\"">> >>),
      TextFile(<< <<"C","o","d","e","\t","T","i","t","l","e">>, <<"A","0","0","\t","\"","C","h","o","l","e","r","a">> >>),
      TextFile(<< <<"C","o","d","e","\t","C","o","d","e"," ","\t","T","i","t","l","e">>, <<"A","0","0","\t","B","0","1","\t","C","h","o","l","e","r","a">> >>),
      TextFile(<< <<"X","\t","X"," ","\t","Y">>, <<"A","0","0","\t","B","0","1","\t","C","h","o","l","e","r","a">> >>),
      TextFile(<< <<"C","o","d","e","\t","T","i","t","l","e","\t","T","i","t","l","e"," ">>, <<"A","0","0","\t","C","h","o","l","e","r","a","\t","x">> >>),
      TextFile(<< <<"C","o","d","e","\t","Y","\t"," ","Y">>, <<"A","0","0","\t","C","h","o","l","e","r","a","\t","x">> >>),
      TextFile(<< <<"C","o","d","e","\t","C","o","d","e">>, <<"A","0","0","\t","B","0","1">> >>),
      TextFile(<< <<"C","o","d","e","\t","T","i","t","l","e">>, <<"a","\t","A","0","0","\t","C","h","o","l","e","r","a">>, <<>>, <<"c","\t","B","0","1","\t","V","a","r","i","c","e","l","l","a">> >>),
      TextFile(<< <<"C","o","d","e","\t","T","i","t","l","e">>, <<"A","0","0">>, <<"B","0","1","\t","V","a","r">> >>),
      TextFile(<< <<"C","o","d","e","\t","T","i","t","l","e">>, <<"k">>, <<"1","\t","A","0","0","\t","C","h","o","l","e","r","a">> >>),
      TextFile(<< <<"U+2003">>, <<"C","o","d","e","\t","T","i","t","l","e">>, <<"U+2003","A","0","0","U+2003","\t","C","h","o","l","e","r","a">> >>) }
IcdInputs ==
    {[kind |-> "text", exists |-> FALSE, lines |-> <<>>]}
    \cup {IcdTable(l, rs, sep) : l \in IcdLayouts, rs \in SeqsUpTo(IcdRowPool, MaxRows),
                                  sep \in {"\t", ","}}
    \cup {TextFile(ls) : ls \in SeqsUpTo(IcdLinePool, MaxRows)}
    \cup IcdMixedFiles

(***************************************************************************)
(* The runs: a script and its input are drawn, and the script's steps run  *)
(* in order while the clock may advance.                                   *)
(***************************************************************************)
Tick ==
    /\ pc \in {"start", "parsed", "loaded", "cleaned"}
    /\ clock < ClockStart + MaxTicks
    /\ clock' = clock + 1
    /\ UNCHANGED <<script, input, pc, raw, out, files, err, stamp, npi_arg, npi_ret>>

Init ==
    /\ \/ script = "hcpcs" /\ input \in HcpcsInputs
       \/ script = "loinc" /\ input \in LoincInputs
       \/ script = "snomed" /\ input \in SnomedInputs
       \/ script = "npi" /\ input \in NpiInputs
       \/ script = "rxnorm" /\ input \in NpiInputs
       \/ script = "icd10who" /\ input \in WhoInputs
       \/ script = "icd10cm" /\ input \in IcdInputs
    /\ clock = ClockStart
    /\ pc = "start"
    /\ raw = NoData /\ out = NoData /\ files = <<>> /\ err = NoErr /\ stamp = <<>>
    /\ npi_arg = <<>> /\ npi_ret = NotCalled

Next ==
    \/ Tick
    \/ HcpcsLoad \/ HcpcsClean \/ HcpcsSave
    \/ LoincLoad \/ LoincClean \/ LoincSave
    \/ SnomedLoad \/ SnomedClean \/ SnomedSave
    \/ NpiLoad \/ NpiClean \/ NpiSave
    \/ RxLoad \/ RxClean \/ RxSave
    \/ WhoLoad \/ WhoExtract \/ WhoClean \/ WhoSave
    \/ IcdLoad \/ IcdClean \/ IcdSave

Spec == Init /\ [][Next]_vars

(***************************************************************************)
(* The properties of the pipeline runs.                                    *)
(***************************************************************************)
Sources == {"hcpcs", "icd10cm", "icd10who", "loinc", "npi", "rxnorm", "snomed"}
Deduplicating == Sources \ {"loinc"}
CanonicalBase ==
    [hcpcs |-> "output/csv/hcpcs_latest", icd10cm |-> "output/csv/icd10cm_latest",
     icd10who |-> "output/csv/icd10who_latest", loinc |-> "output/csv/loinc_latest",
     npi |-> "output/csv/npi_latest", rxnorm |-> "output/csv/npi_latest",
     snomed |-> "output/csv/snomed_us_latest"]
\* the writes of this run to the canonical output file
CanonicalWrites == {f \in 1..Len(files) : files[f].path.base = CanonicalBase[script]}
\* the values of column name in a written dataset
ColumnOf(df, name) ==
    IF HasCol(df.cols, name) THEN [i \in 1..Len(df.rows) |-> df.rows[i][ColIdx(df.cols, name)[1]]]
    ELSE <<>>
NoRepeat(s) == \A i, j \in 1..Len(s) : i # j => s[i] # s[j]

\* C1: in every script and for every input, the record set written to the
\* canonical output file holds no two records with the same code
C1_NoDuplicateCodes ==
    \A f \in CanonicalWrites : NoRepeat(ColumnOf(files[f].data, S_code))

\* the grammar of a source's codes, on the whole string
MatchesGrammar(c) ==
    CASE script = "hcpcs" -> FullMatchHcpcs(c)
      [] script \in {"icd10cm", "icd10who"} -> FullMatchIcd(c)
      [] script = "snomed" -> FullMatchSnomed(c)
      [] script \in {"npi", "rxnorm"} -> FullMatchTen(c) /\ LuhnCheckDigit(SubSeq(c, 1, 9)) = DigitVal(c[10])
      [] OTHER -> TRUE

\* C2: every code in a written output set matches its source's grammar as a
\* whole string; an NPI code is exactly 10 digits that pass the checksum, so
\* the string retained is the string that was validated
C2_CodesMatchGrammar ==
    \A f \in CanonicalWrites :
        \A i \in 1..Len(files[f].data.rows) :
            /\ HasCol(files[f].data.cols, S_code)
            /\ MatchesGrammar(ColumnOf(files[f].data, S_code)[i])

\* the values the timestamp helper can have returned so far in this run
HelperStamps == {now_utc_iso(t) : t \in ClockStart..clock}

\* C3: in every record written by any script, last_updated is the value the
\* timestamp helper produced in the run (YYYY-MM-DDTHH:MM:SSZ), not a literal
\* assigned before or after it
C3_TimestampFromHelper ==
    \A f \in 1..Len(files) :
        \A i \in 1..Len(files[f].data.rows) :
            /\ HasCol(files[f].data.cols, S_last_updated)
            /\ ColumnOf(files[f].data, S_last_updated)[i] \in HelperStamps

\* the cleaner of the running script found the columns it works on
ColumnsFound ==
    CASE script = "snomed" -> LowerMapGet(raw.cols, S_conceptid) # 0 /\ LowerMapGet(raw.cols, S_term) # 0
      [] script = "npi" -> NpiFindColumn(raw) # <<>>
      [] script = "rxnorm" -> FirstPresent(rx_NPI_CANDIDATES, raw.cols) # <<>>
      [] script = "icd10cm" -> /\ IcdCodeColumn(raw) # 0 /\ IcdDescColumn(raw) # 0
                               /\ IcdCodeColumn(raw) # IcdDescColumn(raw)
      [] OTHER -> TRUE

\* the pairs <<code, description>> of the rows of the file, one per row and in
\* the order of the file: the description of a row is the one under its label
InputOrder(a, codes, b, descs) ==
    IF a = b THEN [i \in 1..Len(codes) |-> <<codes[i], descs[i]>>]
    ELSE [i \in 1..Len(codes) |-> <<codes[i], Reindex(b, descs, a)[i]>>]
NpiInOrder ==
    InputOrder(IndexOf(raw),
               [i \in 1..Len(raw.rows) |-> Strip(AsStr(raw.rows[i][ColIdx(raw.cols, NpiFindColumn(raw))[1]]))],
               NpiDescriptions(raw).index,
               [i \in 1..Len(NpiDescriptions(raw).values) |-> Strip(AsStr(NpiDescriptions(raw).values[i]))])
RxInOrder ==
    InputOrder(IndexOf(raw),
               [i \in 1..Len(raw.rows) |->
                   Strip(AsStr(raw.rows[i][ColIdx(raw.cols, FirstPresent(rx_NPI_CANDIDATES, raw.cols))[1]]))],
               build_description(raw).index,
               [i \in 1..Len(build_description(raw).values) |-> Strip(AsStr(build_description(raw).values[i]))])

\* the loaded rows, cleaned, that pass validation and have a description, in
\* input order
Qualifying ==
    CASE script = "hcpcs" -> HcpcsQualifying(raw)
      [] script = "snomed" -> SnomedQualifying(raw)
      [] script = "npi" -> SelectSeq(NpiInOrder, LAMBDA r : is_valid_npi(r[1]) /\ r[2] # <<>>)
      [] script = "rxnorm" -> SelectSeq(RxInOrder, LAMBDA r : rx_is_valid_npi(r[1]) /\ r[2] # <<>>)
      [] script = "icd10cm" -> IcdQualifying(raw, IcdCodeColumn(raw), IcdDescColumn(raw))
      [] script = "icd10who" ->
            SelectSeq(raw.rows, LAMBDA r : FullMatchIcd(r[1]) /\ Strip(AsStr(r[2])) # <<>>)
      [] OTHER -> <<>>

\* the position in q of the first row of the given code
FirstOf(q, code) == CHOOSE i \in 1..Len(q) : q[i][1] = code /\ \A k \in 1..(i - 1) : q[k][1] # code

\* r holds one record for each code of q, with the description of the first
\* row of that code, in the order of these first rows
KeepsFirst(q, r) ==
    /\ \A i \in 1..Len(q) : Cardinality({k \in 1..Len(r) : r[k][1] = q[i][1]}) = 1
    /\ \A k \in 1..Len(r) :
          /\ \E i \in 1..Len(q) : q[i][1] = r[k][1]
          /\ r[k][2] = q[FirstOf(q, r[k][1])][2]
    /\ \A k, l \in 1..Len(r) : k < l => FirstOf(q, r[k][1]) < FirstOf(q, r[l][1])

\* The rows of C5: the pairs <<code, description>> a script makes of the rows
\* of its input, one per row and in the order of the input, code and
\* description cleaned as the script cleans them
SnomedPairs(df) ==
    [i \in 1..Len(df.rows) |->
        <<Strip(AsStr(df.rows[i][LowerMapGet(df.cols, S_conceptid)])),
          Strip(AsStr(df.rows[i][LowerMapGet(df.cols, S_term)]))>>]
NpiPairs(df) ==
    [i \in 1..Len(df.rows) |->
        <<Strip(AsStr(df.rows[i][ColIdx(df.cols, NpiFindColumn(df))[1]])),
          Strip(AsStr(NpiDescriptions(df).values[i]))>>]
RxPairs(df) ==
    [i \in 1..Len(df.rows) |->
        <<Strip(AsStr(df.rows[i][ColIdx(df.cols, FirstPresent(rx_NPI_CANDIDATES, df.cols))[1]])),
          Strip(AsStr(IF FirstPresent(rx_ORG_COLS, df.cols) # <<>>
                      THEN df.rows[i][ColIdx(df.cols, FirstPresent(rx_ORG_COLS, df.cols))[1]]
                      ELSE JoinName(PartCells(df, rx_NAME_COLS, i, TRUE))))>>]
\* the rows that pass validation and have a non-empty description, in the
\* order of the input
Passing ==
    CASE script = "hcpcs" -> HcpcsQualifying(raw)
      [] script = "snomed" ->
            SelectSeq(SnomedPairs(raw), LAMBDA r : FullMatchSnomed(r[1]) /\ r[2] # <<>>)
      [] script = "npi" -> SelectSeq(NpiPairs(raw), LAMBDA r : is_valid_npi(r[1]) /\ r[2] # <<>>)
      [] script = "rxnorm" -> SelectSeq(RxPairs(raw), LAMBDA r : rx_is_valid_npi(r[1]) /\ r[2] # <<>>)
      [] script = "icd10cm" -> IcdQualifying(raw, IcdCodeColumn(raw), IcdDescColumn(raw))
      [] script = "icd10who" ->
            SelectSeq(raw.rows, LAMBDA r : FullMatchIcd(r[1]) /\ Strip(AsStr(r[2])) # <<>>)
      [] OTHER -> <<>>

\* C5: in every cleaner that deduplicates, the output holds exactly one record
\* for each code of the rows that pass validation and have a description,
\* with the description of the first of them in input order, and the records
\* keep their relative order; the file written holds these records
C5_FirstRowKept ==
    (script \in Deduplicating /\ pc \in {"cleaned", "saved"}) =>
        /\ KeepsFirst(Passing, out.rows)
        /\ pc = "saved" => /\ Len(files) = 1
                           /\ files[1].data.rows = out.rows

\* the codes of all the rows of the input, cleaned, in the order of the input
InputCodes ==
    CASE script = "snomed" -> [i \in 1..Len(raw.rows) |-> SnomedPairs(raw)[i][1]]
      [] script = "npi" -> [i \in 1..Len(raw.rows) |-> NpiPairs(raw)[i][1]]
      [] script = "rxnorm" -> [i \in 1..Len(raw.rows) |-> RxPairs(raw)[i][1]]
      [] script = "icd10cm" ->
            [i \in 1..Len(raw.rows) |-> Upper(Strip(AsStr(raw.rows[i][IcdCodeColumn(raw)])))]
      [] OTHER -> [i \in 1..Len(raw.rows) |-> raw.rows[i][1]]
\* C5, the order alone: of two records written, the first is of a code that
\* some row of the input carries before any row carries the code of the second
C5_OrderKept ==
    (script \in Deduplicating /\ pc = "saved") =>
        \A k, l \in 1..Len(out.rows) :
            k < l => \E i \in 1..Len(InputCodes) :
                        /\ InputCodes[i] = out.rows[k][1]
                        /\ \A j \in 1..i : InputCodes[j] # out.rows[l][1]
\* C5 on the files it holds for: those whose rows carry no label of their own
\* (no row has more fields than the header), read by a script other than the
\* SNOMED one
C5_KeptWithoutLabels ==
    (/\ script \in Deduplicating \ {"snomed"} /\ pc \in {"cleaned", "saved"}
     /\ IndexOf(raw) = RangeIndex(Len(raw.rows))) =>
        KeepsFirst(Passing, out.rows)
\* C5 for the SNOMED script on the files it holds for: those without a column
\* active and without a column languageCode
C5_KeptWithoutFilters ==
    (/\ script = "snomed" /\ pc \in {"cleaned", "saved"}
     /\ ~HasCol(raw.cols, S_active) /\ FirstLower(raw.cols, S_languagecode) = 0) =>
        KeepsFirst(Passing, out.rows)
\* C5: the NPI script has written two records in the reverse of the order in
\* which the file holds their rows
C5_OrderReversed ==
    /\ script = "npi" /\ pc = "saved"
    /\ Len(raw.rows) = 2 /\ Len(out.rows) = 2
    /\ out.rows[1][1] = NpiPairs(raw)[2][1]
    /\ out.rows[2][1] = NpiPairs(raw)[1][1]
    /\ out.rows[1][1] # out.rows[2][1]
\* C5: the SNOMED script has written, for a code, the description of a later
\* row than the first that passes validation and has a description
C5_LaterRowKept ==
    /\ script = "snomed" /\ pc = "saved"
    /\ \E k \in 1..Len(out.rows) :
          /\ \E i \in 1..Len(Passing) : Passing[i][1] = out.rows[k][1]
          /\ out.rows[k][2] # Passing[FirstOf(Passing, out.rows[k][1])][2]

\* C6: when validation filters out every row, or the parser extracts no pair,
\* the clean step raises no error and the run completes, writing an empty
\* record set (HCPCS, ICD-10-CM, ICD-10-WHO, NPI, RxNorm, SNOMED)
NoRowSurvives == script \in Deduplicating /\ ColumnsFound /\ Qualifying = <<>>
C6_EmptyIsSuccess ==
    /\ [][(pc = "loaded" /\ NoRowSurvives) => pc' # "failed"]_vars
    /\ []((pc = "saved" /\ NoRowSurvives) => (Len(files) = 1 /\ files[1].data.rows = <<>>))

\* C7: a fatal condition stops the run with no output file written: a write
\* happens only in a step from the state where loading and cleaning have
\* completed without error, no step follows a failure, and a failed run has
\* written nothing
C7_NoWriteBeforeClean ==
    /\ [][files' # files => (pc = "cleaned" /\ err = NoErr /\ pc' = "saved")]_vars
    /\ [][pc # "failed"]_vars
    /\ [](pc = "failed" => (files = <<>> /\ err # NoErr))

\* the ICD-10-CM run failed on a file of lines none of which parsed
C7_Witness ==
    /\ script = "icd10cm" /\ pc = "failed" /\ err = "RuntimeError"
    /\ input.exists /\ input.lines # <<>>
    /\ files = <<>>

(***************************************************************************)
(* Column detection, stated without the loops of the code.                 *)
(***************************************************************************)
\* a > b for two scores; false when either is undefined (no rows)
Above(a, b) == a.den > 0 /\ b.den > 0 /\ a.num * b.den > b.num * a.den
Least(S) == CHOOSE j \in S : \A k \in S : j <= k

\* the first name of the list that is a column; <<>> when none is
FirstNamed(names, cols) ==
    LET hits == {i \in 1..Len(names) : HasCol(cols, names[i])}
    IN  IF hits = {} THEN <<>> ELSE names[Least(hits)]

\* the earliest of the columns whose score is above zero and is exceeded by no
\* column's score (score[j] is the score of column j); 0 when there is none
EarliestBest(score) ==
    LET top == {j \in DOMAIN score : /\ Above(score[j], Mean(0, 1))
                                      /\ \A k \in DOMAIN score : ~Above(score[k], score[j])}
    IN  IF top = {} THEN 0 ELSE Least(top)

\* the earliest of the columns of cand whose mean length no column of cand
\* exceeds (the first of cand when no row gives a mean); 0 when cand is empty
EarliestLongest(df, cand) ==
    LET top == {j \in cand : \A k \in cand : ~Above(MeanLen(df, k), MeanLen(df, j))}
    IN  IF top = {} THEN 0 ELSE Least(top)

\* the share of the values of column j that match: among all the values, a
\* null one counting as a value that does not match; among the non-null ones
\* (kind names the grammar: "icd" for an ICD-10 code, "ten" for ten digits)
Matches(kind, v) == IF kind = "icd" THEN LooksIcd(v) ELSE LooksTen(v)
ShareOfAll(df, j, kind) ==
    Mean(Cardinality({i \in 1..Len(df.rows) : Matches(kind, df.rows[i][j])}), Len(df.rows))
ShareOfNonNull(df, j, kind) ==
    Mean(Cardinality({i \in 1..Len(df.rows) : ~IsNull(df.rows[i][j]) /\ Matches(kind, df.rows[i][j])}),
         Cardinality({i \in 1..Len(df.rows) : ~IsNull(df.rows[i][j])}))
SharesOfAll(df, kind) == [j \in 1..Len(df.cols) |-> ShareOfAll(df, j, kind)]
SharesOfNonNull(df, kind) == [j \in 1..Len(df.cols) |-> ShareOfNonNull(df, j, kind)]

\* the columns the original statement selects
ClaimedIcdCode(df) ==
    IF FirstNamed(IcdCodeNames, df.cols) # <<>> THEN ColIdx(df.cols, FirstNamed(IcdCodeNames, df.cols))[1]
    ELSE EarliestBest(SharesOfNonNull(df, "icd"))
ClaimedIcdDesc(df) ==
    IF FirstNamed(IcdDescNames, df.cols) # <<>> THEN ColIdx(df.cols, FirstNamed(IcdDescNames, df.cols))[1]
    ELSE EarliestLongest(df, 1..Len(df.cols))
ClaimedNpi(df) ==
    IF FirstNamed(NPI_CANDIDATES, df.cols) # <<>> THEN FirstNamed(NPI_CANDIDATES, df.cols)
    ELSE IF EarliestBest(SharesOfNonNull(df, "ten")) = 0 THEN <<>>
    ELSE df.cols[EarliestBest(SharesOfNonNull(df, "ten"))]

\* the columns the amended statement selects
AmendedIcdCode(df) ==
    IF FirstNamed(IcdCodeNames, df.cols) # <<>> THEN ColIdx(df.cols, FirstNamed(IcdCodeNames, df.cols))[1]
    ELSE EarliestBest(SharesOfAll(df, "icd"))
AmendedIcdDesc(df) ==
    IF FirstNamed(IcdDescNames, df.cols) # <<>> THEN ColIdx(df.cols, FirstNamed(IcdDescNames, df.cols))[1]
    ELSE EarliestLongest(df, (1..Len(df.cols)) \ {AmendedIcdCode(df)})
AmendedNpi(df) ==
    IF FirstNamed(NPI_CANDIDATES, df.cols) # <<>> THEN FirstNamed(NPI_CANDIDATES, df.cols)
    ELSE IF EarliestBest(SharesOfAll(df, "ten")) = 0 THEN <<>>
    ELSE df.cols[EarliestBest(SharesOfAll(df, "ten"))]

\* the rows of the file that _detect_columns samples, under the trimmed header
HeaderSample(in) ==
    LET sample == read_csv(Records(in), [ReadDefaults EXCEPT !.nrows = SampleRows])
        header == read_csv(Records(in), [ReadDefaults EXCEPT !.nrows = 0])
    IN  IF sample.err = NoErr THEN [sample.df EXCEPT !.cols = StripCols(@)]
        ELSE [header.df EXCEPT !.cols = StripCols(@)]
\* code and description of the cleaned records
Pairs(df) == [i \in 1..Len(df.rows) |-> SubSeq(df.rows[i], 1, 2)]

\* C8 as stated: a preferred name that is a column is taken first, in list
\* order; otherwise the code column is the earliest column with the highest
\* share of non-null values that match the code pattern, and the description
\* column the earliest column of maximum mean string length
C8_ScanOverNonNull ==
    /\ (script = "icd10cm" /\ pc \in {"cleaned", "saved"}) =>
          /\ IcdCodeColumn(raw) = ClaimedIcdCode(raw)
          /\ IcdDescColumn(raw) = ClaimedIcdDesc(raw)
          /\ Pairs(out) = IcdRecords(raw, ClaimedIcdCode(raw), ClaimedIcdDesc(raw)).rows
    /\ (script = "npi" /\ pc \in {"loaded", "cleaned", "saved"}) =>
          /\ detect_columns(input).npi_col = ClaimedNpi(HeaderSample(input))
          /\ HasCol(raw.cols, ClaimedNpi(HeaderSample(input)))
    /\ (script = "npi" /\ pc \in {"cleaned", "saved"}) =>
          /\ NpiFindColumn(raw) = ClaimedNpi(raw)
          /\ Pairs(out) = NpiRecords(raw, ClaimedNpi(raw)).rows

\* C8 amended: a preferred name that is a column is taken first, in list
\* order; otherwise the code column is the earliest column with the highest
\* share, above zero, of matching values among all its values, a null value
\* counting as one that does not match; the description column is the
\* earliest column other than the code column of maximum mean string length
C8_ScanOverAllValues ==
    /\ (script = "icd10cm" /\ pc \in {"cleaned", "saved"}) =>
          /\ IcdCodeColumn(raw) = AmendedIcdCode(raw)
          /\ IcdDescColumn(raw) = AmendedIcdDesc(raw)
          /\ Pairs(out) = IcdRecords(raw, AmendedIcdCode(raw), AmendedIcdDesc(raw)).rows
    /\ (script = "npi" /\ pc \in {"loaded", "cleaned", "saved"}) =>
          /\ detect_columns(input).npi_col = AmendedNpi(HeaderSample(input))
          /\ HasCol(raw.cols, AmendedNpi(HeaderSample(input)))
    /\ (script = "npi" /\ pc \in {"cleaned", "saved"}) =>
          /\ NpiFindColumn(raw) = AmendedNpi(raw)
          /\ Pairs(out) = NpiRecords(raw, AmendedNpi(raw)).rows

\* an ICD-10-CM table without a preferred name was cleaned and written, a
\* value of it is null, and a later column ties with the code column chosen
C8_Witness ==
    /\ script = "icd10cm" /\ pc = "saved" /\ out.rows # <<>>
    /\ FirstNamed(IcdCodeNames, raw.cols) = <<>>
    /\ FirstNamed(IcdDescNames, raw.cols) = <<>>
    /\ \E i \in 1..Len(raw.rows) : \E j \in 1..Len(raw.cols) : raw.rows[i][j] = NaN
    /\ \E k \in (AmendedIcdCode(raw) + 1)..Len(raw.cols) :
          ShareOfAll(raw, k, "icd") = ShareOfAll(raw, AmendedIcdCode(raw), "icd")

\* the clean step of the running script has run on the loaded dataset
CleanRan == pc \in {"cleaned", "saved"} \/ (pc = "failed" /\ raw # NoData)
\* no preferred name is a column and no column scores above zero
NoCodeColumn(names, kind) ==
    /\ FirstNamed(names, raw.cols) = <<>>
    /\ \A j \in 1..Len(raw.cols) : ~Above(ShareOfAll(raw, j, kind), Mean(0, 1))
NoDescColumn ==
    /\ FirstNamed(IcdDescNames, raw.cols) = <<>>
    /\ \A j \in 1..Len(raw.cols) : ~Above(MeanLen(raw, j), Mean(0, 1))

\* C9: with no preferred name present and no column scoring above zero, the
\* cleaner fails with KeyError, for the code and for the description column
\* (ICD-10-CM, NPI, RxNorm); no column is selected on a zero or undefined score
C9_KeyErrorOnZeroScore ==
    /\ (script = "icd10cm" /\ CleanRan /\ (NoCodeColumn(IcdCodeNames, "icd") \/ NoDescColumn))
          => (pc = "failed" /\ err = "KeyError")
    /\ (script = "npi" /\ CleanRan /\ NoCodeColumn(NPI_CANDIDATES, "ten"))
          => (pc = "failed" /\ err = "KeyError")
    /\ (script = "rxnorm" /\ CleanRan /\ FirstNamed(rx_NPI_CANDIDATES, raw.cols) = <<>>)
          => (pc = "failed" /\ err = "KeyError")

\* the file is a table delimited by sep: each line has the number of fields
\* of the header line, and that number is above one
Delimited(lines, sep) ==
    /\ lines # <<>>
    /\ Len(Split(lines[1], sep)) > 1
    /\ \A i \in 1..Len(lines) : Len(Split(lines[i], sep)) = Len(Split(lines[1], sep))
ReturnedAsTable(sep) ==
    /\ pc # "failed" \/ raw # NoData
    /\ raw.cols = StripCols(Split(input.lines[1], sep))
    /\ Len(raw.rows) = Len(input.lines) - 1

\* C10: for every existing file delimited by tabs, or by commas, with a
\* header row and more than one column, load_icd10cm_data returns the
\* delimited dataset with that many columns and trimmed header names
C10_DelimitedReturned ==
    (script = "icd10cm" /\ input.exists /\ pc # "start") =>
        /\ Delimited(input.lines, "\t") => ReturnedAsTable("\t")
        /\ (~Delimited(input.lines, "\t") /\ Delimited(input.lines, ",")) => ReturnedAsTable(",")
(***************************************************************************)
(* The fixed-width lines, stated without the matcher of the loader: a      *)
(* position of a line is the place of its next character, 1..Len(s)+1,     *)
(* and a pattern is followed through the sets of positions it can reach.   *)
(***************************************************************************)
InClass(cls, c) ==
    CASE cls = "space"    -> IsSpace(c)
      [] cls = "nonspace" -> ~IsSpace(c)
      [] cls = "digit"    -> IsDigit(c)
      [] cls = "flag"     -> c \in {"0", "1"}
      [] cls = "any"      -> TRUE
\* the positions after one character of the class, after any number of them
One(s, P, cls) == {p + 1 : p \in {q \in P : q <= Len(s) /\ InClass(cls, s[q])}}
Many(s, P, cls) ==
    {q \in 1..(Len(s) + 1) : \E p \in P : p <= q /\ \A k \in p..(q - 1) : InClass(cls, s[k])}
\* the positions after a text of the ICD-10 code grammar
CodeFrom(s, P) ==
    {q \in 1..(Len(s) + 1) : \E p \in P : p < q /\ FullMatchIcd(SubSeq(s, p, q - 1))}
\* ^\s*(\d+)
AfterOrder(s) == Many(s, One(s, Many(s, {1}, "space"), "digit"), "digit")
\* \s+(code)
AfterCode(s) == CodeFrom(s, Many(s, One(s, AfterOrder(s), "space"), "space"))
\* \s+([01])\s+
AfterFlag(s) ==
    Many(s, One(s, One(s, Many(s, One(s, AfterCode(s), "space"), "space"), "flag"), "space"), "space")
\* (.*?)\s{2,}(.*?)\s*$
MatchesLong(s) ==
    (Len(s) + 1) \in Many(s, Many(s, Many(s, One(s, One(s, Many(s, AfterFlag(s), "any"),
                                                       "space"), "space"), "space"), "any"), "space")
\* (.*\S)\s*$
MatchesShort(s) ==
    (Len(s) + 1) \in Many(s, One(s, Many(s, AfterFlag(s), "any"), "nonspace"), "space")

\* the lines of the file that match the long or the short pattern
MatchingLines ==
    {i \in 1..Len(input.lines) : MatchesLong(input.lines[i]) \/ MatchesShort(input.lines[i])}
\* the k-th of them in file order
NthMatching(k) ==
    CHOOSE i \in MatchingLines : Cardinality({j \in MatchingLines : j <= i}) = k

\* the k-th white-space separated word of a line, and the text after it
RECURSIVE AfterWords(_, _)
AfterWords(s, k) ==
    IF k = 0 THEN s ELSE AfterWords(Drop(LStrip(s), TokenSpan(LStrip(s))), k - 1)
WordOf(s, k) == SubSeq(LStrip(AfterWords(s, k - 1)), 1, TokenSpan(LStrip(AfterWords(s, k - 1))))
StartsWith(t, a) == Len(a) <= Len(t) /\ SubSeq(t, 1, Len(a)) = a

\* row r is the five-field row of line s: the order number, the code and the
\* validity flag are its first three words, the two descriptions are trimmed
\* and are the start and the end of the text that follows; a line that only
\* the short pattern matches has that whole text as both descriptions
RowOfLine(r, s) ==
    /\ Len(r) = 5
    /\ r[1] = WordOf(s, 1) /\ r[2] = WordOf(s, 2) /\ r[3] = WordOf(s, 3)
    /\ r[4] = Strip(r[4]) /\ r[5] = Strip(r[5])
    /\ StartsWith(Strip(AfterWords(s, 3)), r[4])
    /\ EndsWith(Strip(AfterWords(s, 3)), r[5])
    /\ ~MatchesLong(s) => (r[4] = Strip(AfterWords(s, 3)) /\ r[5] = r[4])

\* the load of the running ICD-10-CM script has ended on the fixed-width path:
\* the delimited read gave a single column
OnFixedWidthPath ==
    /\ script = "icd10cm" /\ pc # "start" /\ input.exists
    /\ load_icd10cm_data(input.lines).path = "fixed"

\* C11: on the fixed-width path load_icd10cm_data raises RuntimeError exactly
\* when no line matches the long or the short pattern; otherwise it returns
\* one five-field row per matching line, in file order, the other lines being
\* skipped, and a row of the short pattern repeats its short description as
\* its long description
C11_FixedWidthRows ==
    OnFixedWidthPath =>
        /\ (pc = "failed" /\ err = "RuntimeError") <=> (MatchingLines = {})
        /\ MatchingLines # {} =>
              /\ raw.cols = FixedCols
              /\ Len(raw.rows) = Cardinality(MatchingLines)
              /\ \A k \in 1..Len(raw.rows) : RowOfLine(raw.rows[k], input.lines[NthMatching(k)])

\* a fixed-width file was loaded in which a line matches the long pattern, a
\* line matches the short pattern only, and a line that is not blank matches
\* neither and was skipped
C11_Witness ==
    /\ OnFixedWidthPath /\ pc = "loaded"
    /\ \E i \in MatchingLines : MatchesLong(input.lines[i])
    /\ \E i \in MatchingLines : ~MatchesLong(input.lines[i])
    /\ \E i \in 1..Len(input.lines) : i \notin MatchingLines /\ Strip(input.lines[i]) # <<>>
    /\ Len(raw.rows) = 2
(***************************************************************************)
(* Descriptions that stand for a missing value.                            *)
(***************************************************************************)
\* the column a cleaner takes the description from when it is a single field
\* (0 when the description is joined from the name parts, which are filled),
\* and the column it takes the code from
DescSourceCol ==
    CASE script = "npi" ->
           IF FirstNamed(ORG_COLS, raw.cols) = <<>> THEN 0
           ELSE ColIdx(raw.cols, FirstNamed(ORG_COLS, raw.cols))[1]
      [] script = "rxnorm" ->
           IF FirstNamed(rx_ORG_COLS, raw.cols) = <<>> THEN 0
           ELSE ColIdx(raw.cols, FirstNamed(rx_ORG_COLS, raw.cols))[1]
      [] script = "icd10cm" -> AmendedIcdDesc(raw)
CodeSourceCol ==
    CASE script = "npi" -> ColIdx(raw.cols, AmendedNpi(raw))[1]
      [] script = "rxnorm" -> ColIdx(raw.cols, FirstNamed(rx_NPI_CANDIDATES, raw.cols))[1]
      [] script = "icd10cm" -> AmendedIcdCode(raw)
\* the code of a record, from the value of the code column
RecordCode(v) ==
    IF script = "icd10cm" THEN Upper(Strip(AsStr(v))) ELSE Strip(AsStr(v))
\* the text a null turns into when it is converted to a string
NullText == <<"n","a","n">>
\* the record comes from a row whose description field is null: a row of its
\* code has a null there, and so has every earlier row of its code
FromNullRow(rec) ==
    \E i \in 1..Len(raw.rows) :
        /\ RecordCode(raw.rows[i][CodeSourceCol]) = rec[1]
        /\ raw.rows[i][DescSourceCol] = NaN
        /\ \A j \in 1..(i - 1) :
              RecordCode(raw.rows[j][CodeSourceCol]) = rec[1] => raw.rows[j][DescSourceCol] = NaN

\* C12: in the NPI, the RxNorm and the ICD-10-CM cleaner, no record comes out
\* of a row whose description field is null with the text of the null ("nan")
\* as its description: such a row is dropped or described from other fields
C12_NoNullDescription ==
    (script \in {"npi", "rxnorm", "icd10cm"} /\ pc \in {"cleaned", "saved"} /\ DescSourceCol # 0) =>
        \A k \in 1..Len(out.rows) :
            FromNullRow(out.rows[k]) => out.rows[k][2] # NullText

=============================================================================
